---- MODULE Spec2Model ----
(***************************************************************************)
(* Sentinel endpoint-security daemon: the bounded work queue               *)
(* (threadpool.c), the daemon's start/stop ordering and scan pipeline      *)
(* (main.c) and the quarantine store (quarantine.c).                       *)
(*                                                                         *)
(* Modelling conventions                                                   *)
(*  - A critical section of pool->mutex is one atomic action: every read   *)
(*    and write of queue/head/tail/count/shutdown in threadpool.c happens   *)
(*    with the mutex held, and pthread_cond_wait releases it.               *)
(*  - A condition variable is the set of threads blocked on it.  A thread   *)
(*    leaves the set by a signal, a broadcast or a spurious wake-up and     *)
(*    then re-evaluates its while-condition with the mutex held.           *)
(*  - A heap string returned by strdup is an item id 1..MaxSubmits; NULL   *)
(*    is 0.  Allocation failure is not modelled.                            *)
(*  - The daemon runs as root: chmod/stat succeed exactly when the path    *)
(*    exists.  rename, the copy fallback and unlink can fail.               *)
(***************************************************************************)
EXTENDS Integers, Sequences, FiniteSets, TLC

\* ---------------------------------------------------------------- bounds
\* pool->capacity (QUEUE_CAPACITY is 256 in main.c; the model keeps it small)
Capacity == 2
\* pool->num_threads (WORKER_THREADS is 4 in main.c)
NumWorkers == 2
\* threads that call threadpool_submit in the API-level specification
NumProducers == 2
\* total number of threadpool_submit calls in one run
MaxSubmits == 4
\* most inotify events one read() of monitor_run returns
MaxBatch == 2
\* file events in one run of the scan pipeline specification
MaxScans == 2
\* identifiers one process draws from generate_uuid
MaxUuids == 1
\* restarts of the daemon over one quarantine root
MaxRestarts == 1
\* distinct values of time(NULL) ^ getpid() at the first generate_uuid
NumSeeds == 2
\* client connections made to the IPC socket in one run
MaxConns == 2
\* alert_broadcast calls in one run of the IPC specification
MaxBroadcasts == 2
\* frames (or pieces of frames) the clients send in one run
MaxFrames == 2
\* pieces of text in one reply of the scanner
MaxReply == 3
\* inotify events monitor_run reads in one run
MaxEvents == 1

NULL == 0
Workers == 1..NumWorkers
Producers == 1..NumProducers
Items == 1..MaxSubmits
Slots == 0..(Capacity - 1)
\* the monitor thread is the daemon's only producer
Monitor == 1

VARIABLES
    \* struct threadpool
    queue, head, tail, count, shutdown, submitted, processed,
    \* threads blocked in pthread_cond_wait on not_empty / not_full
    waitNE, waitNF,
    \* worker threads: position and the filepath local of worker_main
    wpc, witem,
    \* producer threads: position, the dup local of threadpool_submit, its
    \* last return value, and the events left in monitor_run's buffer
    ppc, pitem, pret, batch,
    \* main thread position, g_running, ctx->running
    mpc, gRunning, monRunning,
    \* heap: next strdup result
    nextItem,
    \* history: order of enqueues and dequeues, work_fn calls and free()
    \* calls per item, items freed by a rejecting submit, items freed as
    \* residue by threadpool_shutdown
    enqSeq, deqSeq, called, freed, dropped, residual,
    \* the path each strdup'd string holds
    pathOf,
    \* filesystem: mode of the file at each watched path and of each file
    \* under the quarantine root (a path that is absent has no mode)
    files, qfiles,
    \* quarantine.c: s_manifest, the srand seed of this process, the number
    \* of identifiers generate_uuid has produced since srand
    manifest, seed, randPos,
    \* scan_worker locals: orig_mode, attempts, and how the run ended
    origMode, attempts, outcome,
    \* history: the run's last retry sleep began with shutdown requested
    sleptInStop,
    \* history: the last quarantine store call and its result; process
    \* restarts so far
    lastOp, restarts,
    \* alert.c: s_clients[i].fd and .buf_len, s_client_count
    clientFd, clientBufLen, clientCount,
    \* the connection each open descriptor refers to; each client
    \* connection's state; the bytes it has sent that the daemon has not
    \* read; the messages written to it
    fdConn, connState, pending, rcvd,
    \* main thread inside on_gui_command's sync_state branch: its client_fd
    \* argument and the entries still to send; history: the connection that
    \* asked last, the size of its snapshot, the messages it had by then
    syncFd, syncLeft, syncReq,
    \* history: alert_broadcast calls and client frames so far
    bcasts, frames,
    \* per thread: the mutexes it holds, in the order it took them, and the
    \* lock operations left in the call it is executing
    lheld, lprog,
    \* the main thread and a worker inside alert.c, step by step: position,
    \* slot index, the fd and the s_client_count value last read
    rpc, rslot, rfd, rcnt,
    \* history: a close() or a write() was issued on a descriptor that was
    \* not open
    doubleClose, staleWrite,
    \* scanner_scan_file: the bytes clamd sent back, and what the call
    \* returned and stored in *report
    reply, report,
    \* history: the mode of each watched file before any scan_worker run
    firstMode,
    \* monitor_create: the directories still to subscribe, in call order; the
    \* result inotify_add_watch gave for each directory; the ctx counters;
    \* the number of 'limit reached' banners logged; what the call returned
    wdTodo, wdTried, watchesAdded, watchesFailed, enospcLogged, hints, monRet,
    \* history, per connection: the bytes the client has written since the
    \* last newline before its latest piece, and whether that piece ended
    \* the message
    msgLen,
    \* history, per worker and scan_worker run: the scanner_scan_file calls,
    \* the 'retrying' broadcasts and all the broadcasts made so far
    scanCalls, retryCasts, casts,
    \* monitor.c: the handle map (the directories that have an entry), and,
    \* as history, the event monitor_run read last, the path it passed to the
    \* callback, the directory it passed to add_watch_recursive, and the
    \* number of events read
    wdMap, ev, cbPath, subscribed, evCount

poolVars == <<queue, head, tail, count, shutdown, submitted, processed,
              waitNE, waitNF>>
threadVars == <<wpc, witem, ppc, pitem, pret, batch>>
mainVars == <<mpc, gRunning, monRunning>>
histVars == <<nextItem, pathOf, enqSeq, deqSeq, called, freed, dropped,
              residual>>
storeVars == <<files, qfiles, manifest, seed, randPos, lastOp, restarts>>
scanVars == <<origMode, attempts, outcome, sleptInStop>>
ipcVars == <<clientFd, clientBufLen, clientCount, fdConn, connState, pending,
             rcvd, syncFd, syncLeft, syncReq, bcasts, frames>>
lockVars == <<lheld, lprog>>
raceVars == <<rpc, rslot, rfd, rcnt, doubleClose, staleWrite>>
parseVars == <<reply, report>>
modeVars == <<firstMode>>
watchVars == <<wdTodo, wdTried, watchesAdded, watchesFailed, enospcLogged,
               hints, monRet>>
frameVars == <<msgLen>>
retryVars == <<scanCalls, retryCasts, casts>>
eventVars == <<wdMap, ev, cbPath, subscribed, evCount>>
tailVars == <<modeVars, watchVars, frameVars, retryVars, eventVars>>
extVars == <<lockVars, raceVars, parseVars, tailVars>>
vars == <<poolVars, threadVars, mainVars, histVars, storeVars, scanVars,
          ipcVars, extVars>>

\* ------------------------------------------------------------ filesystem

Octal(u, g, o) == u * 64 + g * 8 + o
Mode0000 == Octal(0, 0, 0)
Mode0400 == Octal(4, 0, 0)
Mode0600 == Octal(6, 0, 0)
Mode0644 == Octal(6, 4, 4)
Mode0755 == Octal(7, 5, 5)
\* stat() fails / the path does not exist
Absent == 0 - 1
\* modes a file has when the ingestor first reports it
InitModes == {Mode0755, Mode0644}

\* Watched files as <<directory, basename>>.
Paths == {<<"/tmp/w", "a">>, <<"/tmp/w", "b">>}
NoPath == <<"", "">>
\* quarantine_file, lines 178-179: the text after the last '/'.
Basename(path) == path[2]
Threats == {"Win.Test.EICAR_HDB-1"}

\* mode & ~(S_IXUSR | S_IXGRP | S_IXOTH), main.c line 117
StripExec(m) ==
    LET u == m \div 64
        g == (m \div 8) % 8
        o == m % 8
    IN Octal(u - (u % 2), g - (g % 2), o - (o % 2))

\* chmod(path, m) on a watched path: fails (ENOENT) when the file is absent.
Chmod(f, path, m) == IF f[path] = Absent THEN f ELSE [f EXCEPT ![path] = m]

\* Files under the quarantine root: a function from the paths that exist.
QMode(qf, qp) == IF qp \in DOMAIN qf THEN qf[qp] ELSE Absent
QPut(qf, qp, m) ==
    [x \in (DOMAIN qf) \cup {qp} |-> IF x = qp THEN m ELSE qf[x]]
QRemove(qf, qp) == [x \in (DOMAIN qf) \ {qp} |-> qf[x]]
QChmod(qf, qp, m) == IF qp \in DOMAIN qf THEN QPut(qf, qp, m) ELSE qf
NoFiles == [x \in {} |-> Mode0000]

\* --------------------------------------------------------- quarantine.c

\* Outcomes of rename(), of copy_file() and of unlink().  copy_file fails
\* either before anything is written (an open fails) or in write(), and then
\* it unlinks the destination (line 131).
RenameOutcomes == {"ok", "fail"}
CopyOutcomes == {"ok", "open_fail", "write_fail"}
UnlinkOutcomes == {"ok", "fail"}
\* The outcomes <<rename, copy_file, unlink>> of one move: copy_file runs
\* only after a failed rename, unlink only after a successful copy_file.
MoveOutcomes ==
    {<<"ok", "ok", "ok">>}
    \cup {<<"fail", "ok", ul>> : ul \in UnlinkOutcomes}
    \cup {<<"fail", cp, "ok">> : cp \in CopyOutcomes \ {"ok"}}

\* generate_uuid, lines 33-48: the next 32 rand() outputs of the stream that
\* srand(time ^ pid) started.  An identifier is determined by the seed and
\* by how many identifiers were drawn before it; different (seed, position)
\* pairs are taken to give different identifiers.
GenerateUuid == <<seed, randPos>>

\* quarantine_file, line 182: "<QUARANTINE_DIR>/<id>_<basename>"
QuarantinePath(id, path) == <<id, Basename(path)>>

\* manifest_find, lines 100-112: index of the first entry with this id, 0 if
\* there is none.
ManifestFind(id) ==
    IF \E k \in 1..Len(manifest) : manifest[k].id = id
    THEN CHOOSE k \in 1..Len(manifest) :
            /\ manifest[k].id = id
            /\ \A j \in 1..(k - 1) : manifest[j].id # id
    ELSE 0

\* json_object_array_del_idx(s_manifest, idx, 1)
ManifestDel(idx) ==
    [k \in 1..(Len(manifest) - 1) |->
        IF k < idx THEN manifest[k] ELSE manifest[k + 1]]

\* Whether quarantine_file(path, threat) returns 0 for these outcomes.
QuarantineFileOk(path, rn, cp) ==
    files[path] # Absent /\ (rn = "ok" \/ cp = "ok")

\* quarantine_file, lines 161-229, one call under s_qr_mutex.
QuarantineFile(path, threat, rn, cp, ul) ==
    LET exists == files[path] # Absent
        qid == GenerateUuid
        qpath == QuarantinePath(qid, path)
        renamed == exists /\ rn = "ok"
        copied == exists /\ ~renamed /\ cp = "ok"
        moved == renamed \/ copied
    IN /\ randPos' = randPos + 1
       /\ files' =
            IF ~exists THEN files
            ELSE IF renamed THEN [files EXCEPT ![path] = Absent]
            ELSE IF copied /\ ul = "ok" THEN [files EXCEPT ![path] = Absent]
            ELSE [files EXCEPT ![path] = Mode0400]
       /\ qfiles' =
            IF moved THEN QPut(qfiles, qpath, Mode0000)
            ELSE IF exists /\ cp = "write_fail" THEN QRemove(qfiles, qpath)
            ELSE qfiles
       /\ manifest' =
            IF moved
            THEN Append(manifest, [id |-> qid, original_path |-> path,
                                   quarantine_path |-> qpath,
                                   threat_name |-> threat])
            ELSE manifest
       /\ UNCHANGED seed

\* Whether quarantine_restore(id) returns 0 for these outcomes.
QuarantineRestoreOk(id, rn, cp) ==
    /\ ManifestFind(id) # 0
    /\ QMode(qfiles, manifest[ManifestFind(id)].quarantine_path) # Absent
    /\ (rn = "ok" \/ cp = "ok")

\* quarantine_restore, lines 231-283, one call under s_qr_mutex.
QuarantineRestore(id, rn, cp, ul) ==
    LET idx == ManifestFind(id) IN
    IF idx = 0
    THEN UNCHANGED <<files, qfiles, manifest, seed, randPos>>
    ELSE
    LET orig == manifest[idx].original_path
        qpath == manifest[idx].quarantine_path
        exists == QMode(qfiles, qpath) # Absent
        renamed == exists /\ rn = "ok"
        copied == exists /\ ~renamed /\ cp = "ok"
    IN /\ files' =
            IF renamed \/ copied THEN [files EXCEPT ![orig] = Mode0644]
            ELSE IF exists /\ cp = "write_fail"
                 THEN [files EXCEPT ![orig] = Absent]
            ELSE files
       /\ qfiles' =
            IF renamed THEN QRemove(qfiles, qpath)
            ELSE IF copied
                 THEN IF ul = "ok" THEN QRemove(qfiles, qpath)
                      ELSE QChmod(qfiles, qpath, Mode0400)
            ELSE QChmod(qfiles, qpath, Mode0000)
       /\ manifest' = IF renamed \/ copied THEN ManifestDel(idx) ELSE manifest
       /\ UNCHANGED <<seed, randPos>>

\* Whether quarantine_delete(id) returns 0 for this outcome.
QuarantineDeleteOk(id, ul) ==
    /\ ManifestFind(id) # 0
    /\ QMode(qfiles, manifest[ManifestFind(id)].quarantine_path) # Absent
    /\ ul = "ok"

\* quarantine_delete, lines 285-319, one call under s_qr_mutex.
QuarantineDelete(id, ul) ==
    LET idx == ManifestFind(id) IN
    IF idx = 0
    THEN UNCHANGED <<files, qfiles, manifest, seed, randPos>>
    ELSE
    LET qpath == manifest[idx].quarantine_path
        exists == QMode(qfiles, qpath) # Absent
    IN /\ qfiles' =
            IF exists /\ ul = "ok" THEN QRemove(qfiles, qpath)
            ELSE QChmod(qfiles, qpath, Mode0600)
       /\ manifest' = IF exists /\ ul = "ok" THEN ManifestDel(idx) ELSE manifest
       /\ UNCHANGED <<files, seed, randPos>>

NoOp == [op |-> "none", ok |-> FALSE, id |-> <<0, 0>>]

\* quarantine_init on a fresh quarantine root (lines 143-159): empty
\* manifest; every watched file exists.
StoreRest ==
    /\ qfiles = NoFiles
    /\ manifest = <<>>
    /\ seed = 0
    /\ randPos = 1
    /\ lastOp = NoOp
    /\ restarts = 0
    /\ firstMode = files

StoreInit == files \in [Paths -> InitModes] /\ StoreRest

\* The same with one fixed mode, for the specifications that never look at
\* a file.
StoreIdle == files = [path \in Paths |-> Mode0644] /\ StoreRest

\* ------------------------------------------------------ the four mutexes

\* pool->mutex (threadpool.c), s_alert_mutex (alert.c line 52), s_qr_mutex
\* (quarantine.c) and s_log_mutex (logger.c).
Mutexes == {"queue", "ipc", "quarantine", "log"}
LockThreads == {"monitor", "worker", "worker2", "main"}

\* Before any thread has called anything.
LockInit ==
    /\ lheld = [t \in LockThreads |-> <<>>]
    /\ lprog = [t \in LockThreads |-> <<>>]

RaceThreads == {"main", "worker"}

\* scanner_scan_file has not been called.
NoReport == [called |-> FALSE, ret |-> 0, result |-> "SCAN_RESULT_ERROR"]
ParseInit == reply = <<>> /\ report = NoReport

\* Neither thread is inside alert.c.
RaceInit ==
    /\ rpc = [t \in RaceThreads |-> "idle"]
    /\ rslot = [t \in RaceThreads |-> 1]
    /\ rfd = [t \in RaceThreads |-> 0 - 1]
    /\ rcnt = [t \in RaceThreads |-> 0]
    /\ doubleClose = FALSE
    /\ staleWrite = FALSE

\* main.c line 39 and the directories below them; a name that starts with
\* '.' is hidden.
WATCH_DIRS == <<"/home", "/tmp">>
Hidden == {"/home/.cache"}
\* readdir, line 168: the subdirectories of a directory
Entries(dir) ==
    IF dir = "/home" THEN <<"/home/.cache", "/home/u">>
    ELSE IF dir = "/home/u" THEN <<"/home/u/dl">>
    ELSE IF dir = "/tmp" THEN <<"/tmp/w">>
    ELSE <<>>
\* add_watch_recursive, lines 168-175: hidden entries are skipped
IsVisible(dir) == dir \notin Hidden
Children(dir) == SelectSeq(Entries(dir), IsVisible)
WatchedDirs == {"/home", "/home/u", "/home/u/dl", "/tmp", "/tmp/w"}
AllDirs == WatchedDirs \cup Hidden
\* errno of a failed inotify_add_watch, "ok" when it returned a descriptor
WatchResults == {"ok", "ENOSPC", "EACCES", "ENOMEM"}

\* monitor_create has not been called.
WatchInit ==
    /\ wdTodo = <<>>
    /\ wdTried = [dir \in AllDirs |-> "none"]
    /\ watchesAdded = 0
    /\ watchesFailed = 0
    /\ enospcLogged = FALSE
    /\ hints = 0
    /\ monRet = "none"

\* No client has written anything.
FrameInit == msgLen = [c \in 1..MaxConns |-> [len |-> 0, done |-> TRUE]]

\* No scan_worker run has started.
RetryInit ==
    /\ scanCalls = [w \in 1..NumWorkers |-> 0]
    /\ retryCasts = [w \in 1..NumWorkers |-> 0]
    /\ casts = [w \in 1..NumWorkers |-> 0]

\* An inotify event as monitor_run sees it: the name, the watch handle
\* (named by the directory it was given for), the IN_ISDIR flag, the kind,
\* and what stat() gives for the joined path at line 279.
EventNames == {"", ".cache", "w", "a"}
EventKinds == {"IN_CLOSE_WRITE", "IN_CREATE", "IN_MOVED_TO"}
StatResults == {"ENOENT", "REG", "DIR", "FIFO"}
NoEvent == [name |-> "", wd |-> "", isdir |-> FALSE, kind |-> "none",
            st |-> "ENOENT"]
NoDir == ""

\* No event has been read and the handle map is empty (calloc, line 192).
EventInit ==
    /\ wdMap = {}
    /\ ev = NoEvent
    /\ cbPath = NoPath
    /\ subscribed = NoDir
    /\ evCount = 0

TailInit == WatchInit /\ FrameInit /\ RetryInit /\ EventInit
ExtInit == LockInit /\ RaceInit /\ ParseInit /\ TailInit

\* ---------------------------------------------------- alert.c: the state

\* alert.h lines 24 and 27
ALERT_MAX_CLIENTS == 8
ALERT_MSG_MAX == 4096

ClientSlots == 1..ALERT_MAX_CLIENTS
Conns == 1..MaxConns
\* Descriptor numbers the client sockets get; accept() returns the lowest
\* one that is not open.
Fds == 1..MaxConns
NoFd == 0 - 1
NoConn == 0
\* no quarantine id; in a command: no string member "id"
NoId == <<0, 0>>
NoChunk ==
    [len |-> 0, nl |-> FALSE, action |-> "none", size |-> 0, id |-> NoId]
NoReq == [conn |-> NoConn, n |-> 0, start |-> 0, snapshot |-> <<>>]

\* A piece of size bytes a client writes to its socket, len of them still
\* unread: the text of a command, padded with white space, and the newline
\* (nl), or white space that starts a message.
Piece(n, newline, act) ==
    [len |-> n, nl |-> newline, action |-> act, size |-> n, id |-> NoId]

\* What a client writes to its socket in one piece: a complete line holding
\* a sync_state command, a complete line that is not JSON, or
\* ALERT_MSG_MAX - 1 bytes of a frame without a newline.
Chunks ==
    {Piece(24, TRUE, "sync_state"),
     Piece(8, TRUE, "malformed"),
     Piece(ALERT_MSG_MAX - 1, FALSE, "none")}

\* alert_server_init, lines 205-209: every slot unused; no client yet.
IpcInit ==
    /\ clientFd = [i \in ClientSlots |-> NoFd]
    /\ clientBufLen = [i \in ClientSlots |-> 0]
    /\ clientCount = 0
    /\ fdConn = [fd \in Fds |-> NoConn]
    /\ connState = [c \in Conns |-> "none"]
    /\ pending = [c \in Conns |-> NoChunk]
    /\ rcvd = [c \in Conns |-> <<>>]
    /\ syncFd = NoFd
    /\ syncLeft = <<>>
    /\ syncReq = NoReq
    /\ bcasts = 0
    /\ frames = 0

\* ------------------------------------------------------- threadpool.c

\* pthread_cond_signal(&pool->not_empty): wakes one blocked worker, if any.
\* The woken worker re-evaluates the while-condition of worker_main.
SignalNotEmpty(wpcNow) ==
    IF waitNE = {}
    THEN waitNE' = waitNE /\ wpc' = wpcNow
    ELSE \E w \in waitNE :
            /\ waitNE' = waitNE \ {w}
            /\ wpc' = [wpcNow EXCEPT ![w] = "top"]

\* A signal on not_full that wakes nobody.
SignalNotFullLost(ppcNow) == waitNF' = waitNF /\ ppc' = ppcNow

\* pthread_cond_signal(&pool->not_full): wakes one blocked producer, if any.
SignalNotFull(ppcNow) ==
    IF waitNF = {}
    THEN waitNF' = waitNF /\ ppc' = ppcNow
    ELSE \E p \in waitNF :
            /\ waitNF' = waitNF \ {p}
            /\ ppc' = [ppcNow EXCEPT ![p] = "woken"]

\* A mutation of QueueFull: the comparison admits one item too many.
QueueFullOffByOne == count > Capacity

\* threadpool_submit, line 205: pool->count >= pool->capacity.
QueueFull == count >= Capacity

\* A mutation of Enqueue: head is not advanced.
EnqueueKeepHead(item) ==
    /\ queue' = [queue EXCEPT ![head] = item]
    /\ head' = head
    /\ count' = count + 1
    /\ submitted' = submitted + 1
    /\ enqSeq' = Append(enqSeq, item)

\* threadpool_submit, lines 218-222: store at head, advance head, count++.
Enqueue(item) ==
    /\ queue' = [queue EXCEPT ![head] = item]
    /\ head' = (head + 1) % Capacity
    /\ count' = count + 1
    /\ submitted' = submitted + 1
    /\ enqSeq' = Append(enqSeq, item)

\* A submit that does not look at the shutdown flag.
SeesShutdownNever == FALSE

\* threadpool_submit, lines 192 and 212: if (pool->shutdown).
SeesShutdown == shutdown

\* The caller holds the mutex inside threadpool_submit: it has just locked
\* it (line 189, "submit") or has returned from pthread_cond_wait (line
\* 208, "woken").
InSubmit(p) == ppc[p] \in {"submit", "woken"}

\* threadpool_submit from pthread_mutex_lock to its return or to
\* pthread_cond_wait.  A producer woken from not_full re-enters here: the
\* checks after a wake-up (while full -> wait; shutdown -> reject) are the
\* same function of the pool state as the checks on entry.
\* `after` is where the caller continues once the call has returned.
SubmitLocked(p, after) ==
    /\ InSubmit(p)
    /\ IF SeesShutdown
       THEN \* lines 192-196 and 212-216: unlock, free(dup), return -1
            /\ dropped' = dropped \cup {pitem[p]}
            /\ freed' = [freed EXCEPT ![pitem[p]] = @ + 1]
            /\ ppc' = [ppc EXCEPT ![p] = after]
            /\ pitem' = [pitem EXCEPT ![p] = NULL]
            /\ pret' = [pret EXCEPT ![p] = -1]
            /\ UNCHANGED <<queue, head, count, submitted, enqSeq, waitNE,
                           waitNF, wpc>>
       ELSE IF QueueFull
       THEN \* lines 205-209: pthread_cond_wait(&pool->not_full, ...)
            /\ waitNF' = waitNF \cup {p}
            /\ ppc' = [ppc EXCEPT ![p] = "wait_nf"]
            /\ UNCHANGED <<queue, head, count, submitted, enqSeq, waitNE,
                           wpc, pitem, pret, dropped, freed>>
       ELSE \* lines 218-228: enqueue, signal not_empty, unlock, return 0
            /\ Enqueue(pitem[p])
            /\ SignalNotEmpty(wpc)
            /\ ppc' = [ppc EXCEPT ![p] = after]
            /\ pitem' = [pitem EXCEPT ![p] = NULL]
            /\ pret' = [pret EXCEPT ![p] = 0]
            /\ UNCHANGED <<waitNF, dropped, freed>>
    /\ UNCHANGED <<tail, shutdown, processed, witem, batch, mainVars,
                   nextItem, pathOf, deqSeq, called, residual>>
    /\ UNCHANGED <<storeVars, scanVars, ipcVars, extVars>>


\* A mutation of Dequeue: the newest item is taken instead of the oldest.
DequeueNewest(w) ==
    /\ witem' = [witem EXCEPT ![w] = queue[(tail + count - 1) % Capacity]]
    /\ queue' = [queue EXCEPT ![(tail + count - 1) % Capacity] = NULL]
    /\ tail' = tail
    /\ count' = count - 1
    /\ processed' = processed + 1
    /\ deqSeq' = Append(deqSeq, queue[(tail + count - 1) % Capacity])

\* A mutation of Dequeue: the item is taken but left in its slot, and tail
\* is not advanced.
DequeueLeaveItem(w) ==
    /\ witem' = [witem EXCEPT ![w] = queue[tail]]
    /\ queue' = queue
    /\ tail' = tail
    /\ count' = count - 1
    /\ processed' = processed + 1
    /\ deqSeq' = Append(deqSeq, queue[tail])

\* worker_main, lines 81-85: take the slot at tail, clear it, advance tail.
Dequeue(w) ==
    /\ witem' = [witem EXCEPT ![w] = queue[tail]]
    /\ queue' = [queue EXCEPT ![tail] = NULL]
    /\ tail' = (tail + 1) % Capacity
    /\ count' = count - 1
    /\ processed' = processed + 1
    /\ deqSeq' = Append(deqSeq, queue[tail])

\* A mutation of WorkerExits: the worker leaves as soon as the flag is set.
WorkerExitsOnFlag == shutdown

\* worker_main, line 75: the exit test.
WorkerExits == shutdown /\ count = 0

\* worker_main from pthread_mutex_lock (line 67) to pthread_cond_wait, to
\* the break, or to the unlock after a dequeue (line 94).
WorkerTop(w) ==
    /\ wpc[w] = "top"
    /\ IF count = 0 /\ ~shutdown
       THEN \* lines 70-72
            /\ waitNE' = waitNE \cup {w}
            /\ wpc' = [wpc EXCEPT ![w] = "wait_ne"]
            /\ UNCHANGED <<queue, tail, count, processed, deqSeq, witem,
                           waitNF, ppc>>
       ELSE IF WorkerExits
       THEN \* lines 75-78
            /\ wpc' = [wpc EXCEPT ![w] = "exited"]
            /\ UNCHANGED <<queue, tail, count, processed, deqSeq, witem,
                           waitNE, waitNF, ppc>>
       ELSE \* lines 81-94; line 98: work_fn is called for a non-NULL path
            /\ Dequeue(w)
            /\ SignalNotFull(ppc)
            /\ wpc' = [wpc EXCEPT ![w] =
                          IF queue[tail] # NULL THEN "work" ELSE "top"]
            /\ UNCHANGED waitNE
    /\ UNCHANGED <<head, shutdown, submitted, pitem, pret, batch, mainVars,
                   nextItem, pathOf, enqSeq, called, freed, dropped, residual>>
    /\ UNCHANGED <<storeVars, scanVars, ipcVars, extVars>>


\* POSIX allows pthread_cond_wait to return without a signal.
SpuriousWake ==
    /\ \/ \E w \in waitNE :
            /\ waitNE' = waitNE \ {w}
            /\ wpc' = [wpc EXCEPT ![w] = "top"]
            /\ UNCHANGED <<waitNF, ppc>>
       \/ \E p \in waitNF :
            /\ waitNF' = waitNF \ {p}
            /\ ppc' = [ppc EXCEPT ![p] = "woken"]
            /\ UNCHANGED <<waitNE, wpc>>
    /\ UNCHANGED <<queue, head, tail, count, shutdown, submitted, processed,
                   witem, pitem, pret, batch, mainVars, histVars>>
    /\ UNCHANGED <<storeVars, scanVars, ipcVars, extVars>>


\* A mutation of ShutdownBegin: the flag is set and not_empty is broadcast,
\* but not_full is not.
ShutdownBeginNoNotFull(next) ==
    /\ shutdown' = TRUE
    /\ waitNE' = {}
    /\ wpc' = [w \in Workers |-> IF w \in waitNE THEN "top" ELSE wpc[w]]
    /\ mpc' = next
    /\ UNCHANGED <<queue, head, tail, count, submitted, processed, witem,
                   pitem, pret, batch, gRunning, monRunning, histVars,
                   waitNF, ppc>>
    /\ UNCHANGED <<storeVars, scanVars, ipcVars, extVars>>

\* threadpool_shutdown, lines 239-243: set the flag, broadcast both
\* condition variables.
ShutdownBegin(next) ==
    /\ shutdown' = TRUE
    /\ waitNE' = {}
    /\ wpc' = [w \in Workers |-> IF w \in waitNE THEN "top" ELSE wpc[w]]
    /\ waitNF' = {}
    /\ ppc' = [p \in Producers |-> IF p \in waitNF THEN "woken" ELSE ppc[p]]
    /\ mpc' = next
    /\ UNCHANGED <<queue, head, tail, count, submitted, processed, witem,
                   pitem, pret, batch, gRunning, monRunning, histVars>>
    /\ UNCHANGED <<storeVars, scanVars, ipcVars, extVars>>


\* threadpool_shutdown, lines 246-264: join every worker, free what is left
\* in the queue, destroy the pool.
ShutdownJoin(next) ==
    /\ \A w \in Workers : wpc[w] = "exited"
    /\ residual' = residual \cup {queue[i] : i \in {j \in Slots : queue[j] # NULL}}
    /\ freed' = [i \in Items |->
                    IF \E j \in Slots : queue[j] = i THEN freed[i] + 1 ELSE freed[i]]
    /\ queue' = [i \in Slots |-> NULL]
    /\ mpc' = next
    /\ UNCHANGED <<head, tail, count, shutdown, submitted, processed, waitNE,
                   waitNF, threadVars, gRunning, monRunning, nextItem, pathOf,
                   enqSeq, deqSeq, called, dropped>>
    /\ UNCHANGED <<storeVars, scanVars, ipcVars, extVars>>


\* pool->work_fn(filepath, user_data) seen from the pool: scan_worker runs
\* and frees the path on its way out (main.c lines 144, 183, 230).
WorkFn(w) ==
    /\ wpc[w] = "work"
    /\ called' = [called EXCEPT ![witem[w]] = @ + 1]
    /\ freed' = [freed EXCEPT ![witem[w]] = @ + 1]
    /\ witem' = [witem EXCEPT ![w] = NULL]
    /\ wpc' = [wpc EXCEPT ![w] = "top"]
    /\ UNCHANGED <<poolVars, ppc, pitem, pret, batch, mainVars, nextItem, pathOf,
                   enqSeq, deqSeq, dropped, residual>>
    /\ UNCHANGED <<storeVars, scanVars, ipcVars, extVars>>


\* threadpool_submit, lines 181-187: strdup the path.
Strdup(p, path) ==
    /\ nextItem <= MaxSubmits
    /\ pitem' = [pitem EXCEPT ![p] = nextItem]
    /\ pathOf' = [pathOf EXCEPT ![nextItem] = path]
    /\ nextItem' = nextItem + 1
    /\ ppc' = [ppc EXCEPT ![p] = "submit"]

\* ------------------------------------------------- monitor.c and main.c

\* monitor_run, lines 240-250: leave the loop once ctx->running is clear,
\* otherwise poll and read a batch of events.
MonitorLoop ==
    /\ ppc[Monitor] = "loop"
    /\ IF ~monRunning
       THEN /\ ppc' = [ppc EXCEPT ![Monitor] = "exited"]
            /\ UNCHANGED batch
       ELSE \E n \in 1..MaxBatch :
            /\ nextItem + n - 1 <= MaxSubmits
            /\ batch' = [batch EXCEPT ![Monitor] = n]
            /\ ppc' = [ppc EXCEPT ![Monitor] = "event"]
    /\ UNCHANGED <<poolVars, wpc, witem, pitem, pret, mainVars, histVars>>
    /\ UNCHANGED <<storeVars, scanVars, ipcVars, extVars>>


\* monitor_run, lines 253-283, and on_file_event, lines 240-282: the next
\* event of the batch is either filtered out or handed to
\* threadpool_submit.  The for loop does not look at ctx->running.
MonitorEvent ==
    /\ ppc[Monitor] = "event"
    /\ IF batch[Monitor] = 0
       THEN /\ ppc' = [ppc EXCEPT ![Monitor] = "loop"]
            /\ UNCHANGED <<batch, pitem, nextItem, pathOf>>
       ELSE /\ batch' = [batch EXCEPT ![Monitor] = @ - 1]
            /\ \/ UNCHANGED <<ppc, pitem, nextItem, pathOf>>
               \/ \E path \in Paths : Strdup(Monitor, path)
    /\ UNCHANGED <<poolVars, wpc, witem, pret, mainVars, enqSeq, deqSeq,
                   called, freed, dropped, residual>>
    /\ UNCHANGED <<storeVars, scanVars, ipcVars, extVars>>


\* signal_handler, lines 58-63.
SignalHandler ==
    /\ gRunning
    /\ gRunning' = FALSE
    /\ monRunning' = FALSE
    /\ UNCHANGED <<poolVars, threadVars, mpc, histVars>>
    /\ UNCHANGED <<storeVars, scanVars, ipcVars, extVars>>


\* main, lines 470-478: the service loop ends when g_running is clear;
\* then monitor_stop.
MainStopMonitor ==
    /\ mpc = "serving"
    /\ ~gRunning
    /\ monRunning' = FALSE
    /\ mpc' = "join_monitor"
    /\ UNCHANGED <<poolVars, threadVars, gRunning, histVars>>
    /\ UNCHANGED <<storeVars, scanVars, ipcVars, extVars>>


\* A mutation of MainJoinMonitor: main does not wait for the monitor thread.
MainSkipJoinMonitor ==
    /\ mpc = "join_monitor"
    /\ mpc' = "pool_shutdown"
    /\ UNCHANGED <<poolVars, threadVars, gRunning, monRunning, histVars>>
    /\ UNCHANGED <<storeVars, scanVars, ipcVars, extVars>>


\* main, lines 479-480: pthread_join(mon_tid), monitor_destroy.
MainJoinMonitor ==
    /\ mpc = "join_monitor"
    /\ ppc[Monitor] = "exited"
    /\ mpc' = "pool_shutdown"
    /\ UNCHANGED <<poolVars, threadVars, gRunning, monRunning, histVars>>
    /\ UNCHANGED <<storeVars, scanVars, ipcVars, extVars>>


\* main, line 483: threadpool_shutdown(g_pool).
MainPoolShutdown ==
    \/ mpc = "pool_shutdown" /\ ShutdownBegin("join_workers")
    \/ mpc = "join_workers" /\ ShutdownJoin("stopped")

PoolInit ==
    /\ queue = [i \in Slots |-> NULL]
    /\ head = 0 /\ tail = 0 /\ count = 0
    /\ shutdown = FALSE
    /\ submitted = 0 /\ processed = 0
    /\ waitNE = {} /\ waitNF = {}
    /\ wpc = [w \in Workers |-> "top"]
    /\ witem = [w \in Workers |-> NULL]
    /\ pitem = [p \in Producers |-> NULL]
    /\ pret = [p \in Producers |-> 0]
    /\ batch = [p \in Producers |-> 0]
    /\ nextItem = 1
    /\ enqSeq = <<>> /\ deqSeq = <<>>
    /\ called = [i \in Items |-> 0]
    /\ freed = [i \in Items |-> 0]
    /\ dropped = {} /\ residual = {}
    /\ pathOf = [i \in Items |-> NoPath]
    /\ origMode = [w \in Workers |-> Mode0644]
    /\ attempts = [w \in Workers |-> 0]
    /\ outcome = [w \in Workers |-> "none"]
    /\ sleptInStop = [w \in Workers |-> FALSE]

\* The daemon after main has started every subsystem (main.c line 467).
Init ==
    /\ PoolInit
    /\ IpcInit
    /\ ExtInit
    /\ StoreIdle
    /\ ppc = [p \in Producers |-> IF p = Monitor THEN "loop" ELSE "none"]
    /\ mpc = "serving"
    /\ gRunning = TRUE
    /\ monRunning = TRUE

\* ------------------------------------------ the pool used through its API

\* A caller thread calls threadpool_submit.
ApiSubmit(p) ==
    /\ ppc[p] = "idle"
    /\ mpc # "destroyed"
    /\ \E path \in Paths : Strdup(p, path)
    /\ UNCHANGED <<poolVars, wpc, witem, pret, batch, mainVars, enqSeq,
                   deqSeq, called, freed, dropped, residual>>
    /\ UNCHANGED <<storeVars, scanVars, ipcVars, extVars>>


\* The owner calls threadpool_shutdown at any moment.
ApiShutdown ==
    \/ mpc = "serving" /\ ShutdownBegin("join_workers")
    \/ /\ mpc = "join_workers"
       /\ \A p \in Producers : ppc[p] = "idle"
       /\ ShutdownJoin("destroyed")

InitPool ==
    /\ PoolInit
    /\ IpcInit
    /\ ExtInit
    /\ StoreIdle
    /\ ppc = [p \in Producers |-> "idle"]
    /\ mpc = "serving"
    /\ gRunning = TRUE
    /\ monRunning = TRUE

NextPool ==
    \/ \E p \in Producers : ApiSubmit(p)
    \/ \E p \in Producers : SubmitLocked(p, "idle")
    \/ \E w \in Workers : WorkerTop(w)
    \/ \E w \in Workers : WorkFn(w)
    \/ SpuriousWake
    \/ ApiShutdown

SpecPool == InitPool /\ [][NextPool]_vars

\* A fair scheduler and every work_fn call returning, while
\* threadpool_shutdown may or may not be called.
SpecPoolLive ==
    /\ SpecPool
    /\ \A w \in Workers : WF_vars(WorkerTop(w))
    /\ \A w \in Workers : WF_vars(WorkFn(w))
    /\ \A p \in Producers : WF_vars(SubmitLocked(p, "idle"))

\* The same under a fair scheduler: a thread that can take its next step
\* takes it, every work_fn call returns, and the owner goes on to its join.
SpecPoolFair ==
    /\ SpecPool
    /\ \A w \in Workers : WF_vars(WorkerTop(w))
    /\ \A w \in Workers : WF_vars(WorkFn(w))
    /\ \A p \in Producers : WF_vars(SubmitLocked(p, "idle"))
    /\ WF_vars(ApiShutdown)

\* ------------------------------------------------- main.c: scan_worker

SCAN_MAX_RETRIES == 3

\* What one scanner_scan_file call gives scan_worker: -1 ("fail"), or 0 with
\* report.result CLEAN, INFECTED or ERROR.  The call opens the file itself
\* (scanner.c lines 132-136), so it fails when the file is gone.
ScanResults(path) ==
    IF files[path] = Absent THEN {"fail"}
    ELSE {"fail", "clean", "infected", "error"}

ScanPath(w) == pathOf[witem[w]]

ScanOther == UNCHANGED <<poolVars, witem, ppc, pitem, pret, batch, mainVars,
                         nextItem, pathOf, enqSeq, deqSeq, dropped, residual,
                         lastOp, restarts, ipcVars, lockVars, raceVars,
                         parseVars, modeVars, watchVars, frameVars,
                         eventVars>>
ScanFrame == ScanOther /\ UNCHANGED retryVars

\* One more alert_broadcast by worker w's run.
Broadcasts(w) ==
    /\ casts' = [casts EXCEPT ![w] = @ + 1]
    /\ UNCHANGED <<scanCalls, retryCasts>>

StoreFrame == UNCHANGED <<files, qfiles, manifest, seed, randPos>>

\* What a read of the shutdown state gives: g_running cleared by the signal
\* handler (main.c line 61) or the pool's shutdown flag (threadpool.c).
ShutdownRequested == shutdown \/ ~gRunning

\* scan_worker, lines 105-110: work_fn is entered; stat() gives orig_mode,
\* 0644 when it fails.
ScanStat(w) ==
    /\ wpc[w] = "work"
    /\ called' = [called EXCEPT ![witem[w]] = @ + 1]
    /\ origMode' = [origMode EXCEPT ![w] =
                       IF files[ScanPath(w)] = Absent THEN Mode0644
                       ELSE files[ScanPath(w)]]
    /\ attempts' = [attempts EXCEPT ![w] = 0]
    /\ wpc' = [wpc EXCEPT ![w] = "strip"]
    /\ ScanOther /\ StoreFrame
    /\ sleptInStop' = [sleptInStop EXCEPT ![w] = FALSE]
    /\ scanCalls' = [scanCalls EXCEPT ![w] = 0]
    /\ retryCasts' = [retryCasts EXCEPT ![w] = 0]
    /\ casts' = [casts EXCEPT ![w] = 0]
    /\ UNCHANGED <<freed, outcome>>

\* scan_worker, lines 117-125: chmod to orig_mode without the execute bits,
\* when that differs from orig_mode.
ScanStrip(w) ==
    /\ wpc[w] = "strip"
    /\ files' = IF StripExec(origMode[w]) # origMode[w]
                THEN Chmod(files, ScanPath(w), StripExec(origMode[w]))
                ELSE files
    /\ wpc' = [wpc EXCEPT ![w] = "scan"]
    /\ ScanFrame
    /\ UNCHANGED <<qfiles, manifest, seed, randPos, called, freed, scanVars>>

\* An attempts <= SCAN_MAX_RETRIES that lets one more attempt through.
OneMoreAttempt(n) == n <= SCAN_MAX_RETRIES + 1

\* scan_worker, line 131: the loop condition attempts <= SCAN_MAX_RETRIES.
MoreAttempts(n) == n <= SCAN_MAX_RETRIES

\* A stat() before the retry that never fails.
RetryStatAlwaysOk(w) == TRUE

\* scan_worker, lines 139-140: whether stat(filepath) before a retry
\* succeeds.
RetryStatOk(w) == files[ScanPath(w)] # Absent

\* scan_worker, lines 155-161 and the loop header of line 132: one
\* scanner_scan_file call; on 0 leave the loop with the report, on -1 count
\* the attempt and either retry or leave the loop with scan_ok == 0.
ScanAttempt(w) ==
    /\ wpc[w] = "scan"
    /\ \E r \in ScanResults(ScanPath(w)) :
        IF r = "fail"
        THEN /\ attempts' = [attempts EXCEPT ![w] = @ + 1]
             /\ wpc' = [wpc EXCEPT ![w] =
                           IF MoreAttempts(attempts[w] + 1)
                           THEN "retry" ELSE "lockdown"]
        ELSE /\ wpc' = [wpc EXCEPT ![w] = r]
             /\ UNCHANGED attempts
    /\ scanCalls' = [scanCalls EXCEPT ![w] = @ + 1]
    /\ ScanOther /\ StoreFrame
    /\ UNCHANGED <<called, freed, origMode, outcome, sleptInStop, retryCasts,
                   casts>>

\* scan_worker, lines 133-153: before a retry, stat(); a vanished file ends
\* the run; otherwise broadcast, sleep, and scan again.
ScanRetry(w) ==
    /\ wpc[w] = "retry"
    /\ IF ~RetryStatOk(w)
       THEN /\ outcome' = [outcome EXCEPT ![w] = "vanished"]
            /\ wpc' = [wpc EXCEPT ![w] = "ret"]
            /\ UNCHANGED <<sleptInStop, retryVars>>
       ELSE /\ wpc' = [wpc EXCEPT ![w] = "scan"]
            /\ sleptInStop' = [sleptInStop EXCEPT ![w] = ShutdownRequested]
            /\ retryCasts' = [retryCasts EXCEPT ![w] = @ + 1]
            /\ casts' = [casts EXCEPT ![w] = @ + 1]
            /\ UNCHANGED <<outcome, scanCalls>>
    /\ ScanOther /\ StoreFrame
    /\ UNCHANGED <<called, freed, origMode, attempts>>

\* scan_worker, lines 165-179: no report after every attempt: chmod 0000.
ScanLockdown(w) ==
    /\ wpc[w] = "lockdown"
    /\ files' = Chmod(files, ScanPath(w), Mode0000)
    /\ outcome' = [outcome EXCEPT ![w] = "lockdown"]
    /\ wpc' = [wpc EXCEPT ![w] = "ret"]
    /\ ScanOther /\ Broadcasts(w)
    /\ UNCHANGED <<qfiles, manifest, seed, randPos, called, freed, origMode,
                   attempts, sleptInStop>>

\* scan_worker, lines 189-198: clean: broadcast, then chmod back to
\* orig_mode.
ScanClean(w) ==
    /\ wpc[w] = "clean"
    /\ files' = Chmod(files, ScanPath(w), origMode[w])
    /\ outcome' = [outcome EXCEPT ![w] = "clean"]
    /\ wpc' = [wpc EXCEPT ![w] = "ret"]
    /\ ScanOther /\ Broadcasts(w)
    /\ UNCHANGED <<qfiles, manifest, seed, randPos, called, freed, origMode,
                   attempts, sleptInStop>>

\* scan_worker, lines 200-210: infected: quarantine_file; 0 ends the run,
\* -1 leads to the last-resort chmod.
ScanInfected(w) ==
    /\ wpc[w] = "infected"
    /\ \E t \in Threats, mv \in MoveOutcomes :
        /\ QuarantineFile(ScanPath(w), t, mv[1], mv[2], mv[3])
        /\ IF QuarantineFileOk(ScanPath(w), mv[1], mv[2])
           THEN /\ outcome' = [outcome EXCEPT ![w] = "quarantined"]
                /\ wpc' = [wpc EXCEPT ![w] = "ret"]
                /\ Broadcasts(w)
           ELSE /\ wpc' = [wpc EXCEPT ![w] = "qfailed"]
                /\ UNCHANGED <<outcome, retryVars>>
    /\ ScanOther
    /\ UNCHANGED <<called, freed, origMode, attempts, sleptInStop>>

\* scan_worker, line 211: quarantine failed: chmod 0000.
ScanQuarantineFailed(w) ==
    /\ wpc[w] = "qfailed"
    /\ files' = Chmod(files, ScanPath(w), Mode0000)
    /\ outcome' = [outcome EXCEPT ![w] = "qfailed"]
    /\ wpc' = [wpc EXCEPT ![w] = "ret"]
    /\ ScanOther /\ Broadcasts(w)
    /\ UNCHANGED <<qfiles, manifest, seed, randPos, called, freed, origMode,
                   attempts, sleptInStop>>

\* scan_worker, lines 218-227: the scanner reported an error: chmod 0000.
ScanError(w) ==
    /\ wpc[w] = "error"
    /\ files' = Chmod(files, ScanPath(w), Mode0000)
    /\ outcome' = [outcome EXCEPT ![w] = "error"]
    /\ wpc' = [wpc EXCEPT ![w] = "ret"]
    /\ ScanOther /\ Broadcasts(w)
    /\ UNCHANGED <<qfiles, manifest, seed, randPos, called, freed, origMode,
                   attempts, sleptInStop>>

\* scan_worker, lines 144-145, 183-184, 230: free(filepath) and the return
\* to worker_main.
ScanReturn(w) ==
    /\ wpc[w] = "ret"
    /\ freed' = [freed EXCEPT ![witem[w]] = @ + 1]
    /\ witem' = [witem EXCEPT ![w] = NULL]
    /\ wpc' = [wpc EXCEPT ![w] = "top"]
    /\ origMode' = [origMode EXCEPT ![w] = Mode0644]
    /\ attempts' = [attempts EXCEPT ![w] = 0]
    /\ outcome' = [outcome EXCEPT ![w] = "none"]
    /\ sleptInStop' = [sleptInStop EXCEPT ![w] = FALSE]
    /\ scanCalls' = [scanCalls EXCEPT ![w] = 0]
    /\ retryCasts' = [retryCasts EXCEPT ![w] = 0]
    /\ casts' = [casts EXCEPT ![w] = 0]
    /\ StoreFrame
    /\ UNCHANGED <<poolVars, ppc, pitem, pret, batch, mainVars, nextItem,
                   pathOf, enqSeq, deqSeq, called, dropped, residual, lastOp,
                   restarts, ipcVars, lockVars, raceVars, parseVars, modeVars,
                   watchVars, frameVars, eventVars>>

\* monitor_run reports a file event and on_file_event submits its path.
ScanSubmit == nextItem <= MaxScans /\ ApiSubmit(Monitor)

\* The pool with scan_worker as its work function; every watched file
\* exists with some mode when its events are reported.
InitScan ==
    /\ PoolInit
    /\ IpcInit
    /\ ExtInit
    /\ StoreInit
    /\ ppc = [p \in Producers |-> IF p = Monitor THEN "idle" ELSE "none"]
    /\ mpc = "serving"
    /\ gRunning = TRUE
    /\ monRunning = TRUE

NextScan ==
    \/ ScanSubmit
    \/ SubmitLocked(Monitor, "idle")
    \/ \E w \in Workers : WorkerTop(w)
    \/ \E w \in Workers : ScanStat(w)
    \/ \E w \in Workers : ScanStrip(w)
    \/ \E w \in Workers : ScanAttempt(w)
    \/ \E w \in Workers : ScanRetry(w)
    \/ \E w \in Workers : ScanLockdown(w)
    \/ \E w \in Workers : ScanClean(w)
    \/ \E w \in Workers : ScanInfected(w)
    \/ \E w \in Workers : ScanQuarantineFailed(w)
    \/ \E w \in Workers : ScanError(w)
    \/ \E w \in Workers : ScanReturn(w)
    \/ SignalHandler

SpecScan == InitScan /\ [][NextScan]_vars

\* ------------------------------------------- quarantine store, sequential

\* Values srand() is called with (quarantine.c line 36).
Seeds == 0..(NumSeeds - 1)

QuarFrame ==
    UNCHANGED <<poolVars, threadVars, mainVars, histVars, scanVars, ipcVars,
                extVars>>

\* Identifiers a caller may pass: those in the manifest and one that is not.
KnownIds == {manifest[k].id : k \in 1..Len(manifest)} \cup {NoId}

\* A file is created at a watched path that has none.
QCreateFile(path) ==
    /\ files[path] = Absent
    /\ files' = [files EXCEPT ![path] = Mode0644]
    /\ lastOp' = [NoOp EXCEPT !.op = "create"]
    /\ UNCHANGED <<qfiles, manifest, seed, randPos, restarts>>
    /\ QuarFrame

\* One call quarantine_file(path, threat).
QQuarantine(path) ==
    /\ randPos <= MaxUuids
    /\ \E t \in Threats, mv \in MoveOutcomes :
        /\ QuarantineFile(path, t, mv[1], mv[2], mv[3])
        /\ lastOp' = [op |-> "quarantine",
                      ok |-> QuarantineFileOk(path, mv[1], mv[2]),
                      id |-> GenerateUuid]
    /\ UNCHANGED restarts
    /\ QuarFrame

\* One call quarantine_restore(id).
QRestore(id) ==
    /\ \E mv \in MoveOutcomes :
        /\ QuarantineRestore(id, mv[1], mv[2], mv[3])
        /\ lastOp' = [op |-> "restore",
                      ok |-> QuarantineRestoreOk(id, mv[1], mv[2]),
                      id |-> id]
    /\ UNCHANGED restarts
    /\ QuarFrame

\* One call quarantine_delete(id).
QDelete(id) ==
    /\ \E ul \in UnlinkOutcomes :
        /\ QuarantineDelete(id, ul)
        /\ lastOp' = [op |-> "delete",
                      ok |-> QuarantineDeleteOk(id, ul),
                      id |-> id]
    /\ UNCHANGED restarts
    /\ QuarFrame

\* The daemon exits and is started again: quarantine_init loads the manifest
\* that manifest_save wrote (lines 72-92, 155), and the static flag of
\* generate_uuid is clear, so the next call seeds rand() anew (line 36).
QRestart ==
    /\ restarts < MaxRestarts
    /\ restarts' = restarts + 1
    /\ seed' \in Seeds
    /\ randPos' = 1
    /\ lastOp' = [NoOp EXCEPT !.op = "restart"]
    /\ UNCHANGED <<files, qfiles, manifest>>
    /\ QuarFrame

InitQuar ==
    /\ PoolInit
    /\ IpcInit
    /\ ExtInit
    /\ StoreIdle
    /\ ppc = [p \in Producers |-> "none"]
    /\ mpc = "serving"
    /\ gRunning = TRUE
    /\ monRunning = TRUE

NextQuar ==
    \/ \E path \in Paths : QCreateFile(path)
    \/ \E path \in Paths : QQuarantine(path)
    \/ \E id \in KnownIds : QRestore(id)
    \/ \E id \in KnownIds : QDelete(id)
    \/ QRestart

SpecQuar == InitQuar /\ [][NextQuar]_vars

\* ----------------------------------------------------- alert.c: the IPC

IpcFrame ==
    UNCHANGED <<poolVars, threadVars, mainVars, histVars, storeVars, scanVars,
                extVars>>

\* The part of the state that close_client, write() and the two senders
\* change, as one value.
IpcState ==
    [fd |-> clientFd, len |-> clientBufLen, cnt |-> clientCount,
     fdc |-> fdConn, cs |-> connState, rc |-> rcvd]

SetIpc(st) ==
    /\ clientFd' = st.fd
    /\ clientBufLen' = st.len
    /\ clientCount' = st.cnt
    /\ fdConn' = st.fdc
    /\ connState' = st.cs
    /\ rcvd' = st.rc

\* close_client clearing every accumulator instead of the closed slot's.
CloseClientClearAll(st, i) ==
    IF st.fd[i] < 0 THEN st
    ELSE [st EXCEPT !.fdc[st.fd[i]] = NoConn,
                    !.cs[st.fdc[st.fd[i]]] = "closed",
                    !.fd[i] = NoFd,
                    !.len = [j \in ClientSlots |-> 0],
                    !.cnt = @ - 1]

\* close_client, lines 92-100
CloseClient(st, i) ==
    IF st.fd[i] < 0 THEN st
    ELSE [st EXCEPT !.fdc[st.fd[i]] = NoConn,
                    !.cs[st.fdc[st.fd[i]]] = "closed",
                    !.fd[i] = NoFd,
                    !.len[i] = 0,
                    !.cnt = @ - 1]

\* find_free_slot handing out the first slot when none is free.
FindSlotOrFirst ==
    IF \E i \in ClientSlots : clientFd[i] < 0
    THEN CHOOSE i \in ClientSlots :
            /\ clientFd[i] < 0
            /\ \A j \in 1..(i - 1) : clientFd[j] >= 0
    ELSE 1

\* find_free_slot, lines 83-89: the first unused slot, 0 if there is none.
FindFreeSlot ==
    IF \E i \in ClientSlots : clientFd[i] < 0
    THEN CHOOSE i \in ClientSlots :
            /\ clientFd[i] < 0
            /\ \A j \in 1..(i - 1) : clientFd[j] >= 0
    ELSE 0

\* The descriptor accept() returns.
LowestFreeFd ==
    CHOOSE fd \in Fds :
        /\ fdConn[fd] = NoConn
        /\ \A g \in Fds : g < fd => fdConn[g] # NoConn

\* write() on a non-blocking client socket: EBADF on a closed descriptor,
\* EPIPE once the peer has closed, EAGAIN when the send buffer is full.
WriteResult(st, fd, again) ==
    IF st.fdc[fd] = NoConn THEN "EBADF"
    ELSE IF st.cs[st.fdc[fd]] = "peer_closed" THEN "EPIPE"
    ELSE IF again THEN "EAGAIN"
    ELSE "ok"

Deliver(st, fd, msg) == [st EXCEPT !.rc[st.fdc[fd]] = Append(@, msg)]

\* alert_broadcast, lines 350-378: under s_alert_mutex, one write per used
\* slot in index order; EAGAIN drops the message for that client, any other
\* error closes the slot.
RECURSIVE BroadcastFrom(_, _, _, _)
BroadcastFrom(st, i, msg, again) ==
    IF i > ALERT_MAX_CLIENTS THEN st
    ELSE IF st.fd[i] < 0 THEN BroadcastFrom(st, i + 1, msg, again)
    ELSE LET w == WriteResult(st, st.fd[i], i \in again)
             st2 == IF w = "ok" THEN Deliver(st, st.fd[i], msg)
                    ELSE IF w = "EAGAIN" THEN st
                    ELSE CloseClient(st, i)
         IN BroadcastFrom(st2, i + 1, msg, again)

AlertBroadcast(st, msg, again) == BroadcastFrom(st, 1, msg, again)

\* The slot alert_send_to_client cleans up, lines 416-423: the first one
\* whose fd is client_fd, 0 if there is none.
SlotOfFd(st, fd) ==
    IF \E i \in ClientSlots : st.fd[i] = fd
    THEN CHOOSE i \in ClientSlots :
            /\ st.fd[i] = fd
            /\ \A j \in 1..(i - 1) : st.fd[j] # fd
    ELSE 0

\* alert_send_to_client writing to every used slot.
AlertSendToEveryClient(st, fd, msg, again) == BroadcastFrom(st, 1, msg, {})

\* alert_send_to_client, lines 381-427: one write to client_fd; on any
\* error, EAGAIN included, the slot holding client_fd is closed.
AlertSendToClient(st, fd, msg, again) ==
    LET w == WriteResult(st, fd, again)
        i == SlotOfFd(st, fd)
    IN IF w = "ok" THEN Deliver(st, fd, msg)
       ELSE IF i # 0 THEN CloseClient(st, i)
       ELSE st

SyncEntry(e) == [type |-> "sync_entry", id |-> e.id]
SyncComplete == [type |-> "sync_complete", id |-> NoId]
Event(b) == [type |-> "event", id |-> <<0, b>>]

\* A client connects to the socket; the connection waits in the backlog.
ClientConnect(c) ==
    /\ connState[c] = "none"
    /\ \A d \in Conns : d < c => connState[d] # "none"
    /\ connState' = [connState EXCEPT ![c] = "pending"]
    /\ UNCHANGED <<clientFd, clientBufLen, clientCount, fdConn, pending, rcvd,
                   syncFd, syncLeft, syncReq, bcasts, frames>>
    /\ IpcFrame

\* A connected client writes one piece to its socket.
ClientSend(c, ch) ==
    /\ connState[c] = "open"
    /\ pending[c] = NoChunk
    /\ frames < MaxFrames
    /\ pending' = [pending EXCEPT ![c] = ch]
    /\ frames' = frames + 1
    /\ msgLen' = [msgLen EXCEPT ![c] =
                    [len |-> (IF @.done THEN 0 ELSE @.len) + ch.len,
                     done |-> ch.nl]]
    /\ UNCHANGED <<clientFd, clientBufLen, clientCount, fdConn, connState,
                   rcvd, syncFd, syncLeft, syncReq, bcasts>>
    /\ UNCHANGED <<poolVars, threadVars, mainVars, histVars, storeVars,
                   scanVars, lockVars, raceVars, parseVars, modeVars,
                   watchVars, retryVars, eventVars>>

\* A connected client closes its socket.
ClientClose(c) ==
    /\ connState[c] = "open"
    /\ connState' = [connState EXCEPT ![c] = "peer_closed"]
    /\ UNCHANGED <<clientFd, clientBufLen, clientCount, fdConn, pending, rcvd,
                   syncFd, syncLeft, syncReq, bcasts, frames>>
    /\ IpcFrame

\* alert_server_service, lines 293-309: accept() on the readable listening
\* socket and the slot the new client gets.
AcceptOne ==
    \E c \in Conns :
        /\ connState[c] = "pending"
        /\ \A d \in Conns : d < c => connState[d] # "pending"
        /\ LET fd == LowestFreeFd
               i == FindFreeSlot
           IN IF i # 0
              THEN /\ clientFd' = [clientFd EXCEPT ![i] = fd]
                   /\ clientBufLen' = [clientBufLen EXCEPT ![i] = 0]
                   /\ clientCount' = clientCount + 1
                   /\ fdConn' = [fdConn EXCEPT ![fd] = c]
                   /\ connState' = [connState EXCEPT ![c] = "open"]
              ELSE /\ connState' = [connState EXCEPT ![c] = "closed"]
                   /\ UNCHANGED <<clientFd, clientBufLen, clientCount, fdConn>>

\* The main loop's alert_server_service (main.c lines 469-471) accepts.
IpcAccept ==
    /\ mpc = "serving"
    /\ syncFd = NoFd
    /\ AcceptOne
    /\ UNCHANGED <<pending, rcvd, syncFd, syncLeft, syncReq, bcasts, frames>>
    /\ IpcFrame

\* Whether select() reports slot i's descriptor readable.
Readable(i) ==
    /\ clientFd[i] >= 0
    /\ \/ pending[fdConn[clientFd[i]]] # NoChunk
       \/ connState[fdConn[clientFd[i]]] = "peer_closed"

\* on_gui_command, main.c lines 296-372, without requiring an id for
\* restore and delete.
OnGuiCommandAnyId(action, id) ==
    IF action \in {"sync_state", "restore", "delete"} THEN action ELSE "none"

\* on_gui_command, main.c lines 296-372: the branch taken for this action
\* and id; "none" is the warning of line 372.
OnGuiCommand(action, id) ==
    IF action = "sync_state" THEN "sync_state"
    ELSE IF action = "restore" /\ id # NoId THEN "restore"
    ELSE IF action = "delete" /\ id # NoId THEN "delete"
    ELSE "none"

\* process_client_message, lines 110-152, for a complete line: nothing when
\* json_tokener_parse returns NULL (lines 118-122) or there is no string
\* member "action" (lines 125-131), else the handler with action and id.
ProcessClientMessage(ch) ==
    IF ch.action \in {"malformed", "no_action"} THEN "none"
    ELSE OnGuiCommand(ch.action, ch.id)

\* The slots whose client is connected and has not closed its socket.
OpenSlots ==
    {i \in ClientSlots :
        clientFd[i] >= 0 /\ connState[fdConn[clientFd[i]]] = "open"}

\* The broadcast that follows a restore or a delete (main.c lines 346-352,
\* 360-366).
Reply(id) == [type |-> "reply", id |-> id]

\* alert_server_service, lines 312-318, for one readable slot:
\* handle_client_data (lines 158-196) with process_client_message (lines
\* 110-152) for a completed line, and close_client when it returns -1.  A
\* sync_state command enters on_gui_command (main.c lines 302-306), which
\* takes its snapshot with quarantine_list.
IpcRead(i) ==
    /\ syncFd = NoFd
    /\ Readable(i)
    /\ LET c == fdConn[clientFd[i]]
           ch == pending[c]
           space == ALERT_MSG_MAX - clientBufLen[i] - 1
           n == IF ch.len <= space THEN ch.len ELSE space
           whole == n = ch.len
           cmd == IF whole /\ ch.nl /\ clientBufLen[i] + n >= ch.size
                  THEN ProcessClientMessage(ch) ELSE "none"
           read == [IpcState EXCEPT
                       !.len[i] = IF whole /\ ch.nl THEN 0 ELSE @ + n]
       IN IF space <= 0
          THEN /\ clientBufLen' = [clientBufLen EXCEPT ![i] = 0]
               /\ UNCHANGED <<clientFd, clientCount, fdConn, connState,
                              pending, rcvd, syncFd, syncLeft, syncReq,
                              bcasts, storeVars>>
          ELSE IF ch = NoChunk
          THEN /\ SetIpc(CloseClient(IpcState, i))
               /\ UNCHANGED <<pending, syncFd, syncLeft, syncReq, bcasts,
                              storeVars>>
          ELSE /\ pending' =
                    [pending EXCEPT ![c] =
                        IF whole THEN NoChunk ELSE [ch EXCEPT !.len = @ - n]]
               /\ IF cmd = "sync_state"
                  THEN /\ syncFd' = clientFd[i]
                       /\ syncLeft' = manifest
                       /\ syncReq' = [conn |-> c, n |-> Len(manifest),
                                      start |-> Len(rcvd[c]),
                                      snapshot |-> manifest]
                  ELSE UNCHANGED <<syncFd, syncLeft, syncReq>>
               /\ IF cmd = "restore"
                  THEN \E mv \in MoveOutcomes, again \in SUBSET OpenSlots :
                         /\ QuarantineRestore(ch.id, mv[1], mv[2], mv[3])
                         /\ lastOp' =
                              [op |-> "restore",
                               ok |-> QuarantineRestoreOk(ch.id, mv[1], mv[2]),
                               id |-> ch.id]
                         /\ SetIpc(AlertBroadcast(read, Reply(ch.id), again))
                         /\ bcasts' = bcasts + 1
                         /\ UNCHANGED restarts
                  ELSE IF cmd = "delete"
                  THEN \E ul \in UnlinkOutcomes, again \in SUBSET OpenSlots :
                         /\ QuarantineDelete(ch.id, ul)
                         /\ lastOp' =
                              [op |-> "delete",
                               ok |-> QuarantineDeleteOk(ch.id, ul),
                               id |-> ch.id]
                         /\ SetIpc(AlertBroadcast(read, Reply(ch.id), again))
                         /\ bcasts' = bcasts + 1
                         /\ UNCHANGED restarts
                  ELSE /\ SetIpc(read)
                       /\ UNCHANGED <<bcasts, storeVars>>
    /\ UNCHANGED frames
    /\ UNCHANGED <<poolVars, threadVars, mainVars, histVars, scanVars,
                   extVars>>

\* on_gui_command, main.c lines 308-339: the next alert_send_to_client of
\* the sync_state reply; its return value is not looked at.
IpcSyncSend ==
    /\ syncFd # NoFd
    /\ \E again \in BOOLEAN :
        IF syncLeft # <<>>
        THEN /\ SetIpc(AlertSendToClient(IpcState, syncFd,
                                         SyncEntry(Head(syncLeft)), again))
             /\ syncLeft' = Tail(syncLeft)
             /\ UNCHANGED syncFd
        ELSE /\ SetIpc(AlertSendToClient(IpcState, syncFd, SyncComplete,
                                         again))
             /\ syncFd' = NoFd
             /\ UNCHANGED syncLeft
    /\ UNCHANGED <<pending, syncReq, bcasts, frames>>
    /\ IpcFrame

\* A worker thread's alert_broadcast (scan_worker, main.c lines 143-224),
\* at any point of the main thread's work.
IpcBroadcast ==
    /\ bcasts < MaxBroadcasts
    /\ \E again \in SUBSET {i \in ClientSlots :
                               /\ clientFd[i] >= 0
                               /\ connState[fdConn[clientFd[i]]] = "open"} :
        SetIpc(AlertBroadcast(IpcState, Event(bcasts + 1), again))
    /\ bcasts' = bcasts + 1
    /\ UNCHANGED <<pending, syncFd, syncLeft, syncReq, frames>>
    /\ IpcFrame

\* A manifest of n entries as quarantine_file leaves it.
ManifestEntry(k, path) ==
    [id |-> <<0, k>>, original_path |-> path,
     quarantine_path |-> QuarantinePath(<<0, k>>, path),
     threat_name |-> "Win.Test.EICAR_HDB-1"]

ManifestOf(n) ==
    IF n = 0 THEN <<>>
    ELSE IF n = 1 THEN <<ManifestEntry(1, <<"/tmp/w", "a">>)>>
    ELSE <<ManifestEntry(1, <<"/tmp/w", "a">>),
           ManifestEntry(2, <<"/tmp/w", "b">>)>>

InitIpcRest ==
    /\ PoolInit
    /\ ExtInit
    /\ \E n \in 0..2 :
        /\ manifest = ManifestOf(n)
        /\ files = [path \in Paths |->
                      IF \E k \in 1..n : ManifestOf(n)[k].original_path = path
                      THEN Absent ELSE Mode0644]
        /\ qfiles = [qp \in {ManifestOf(n)[k].quarantine_path : k \in 1..n}
                       |-> Mode0000]
        /\ randPos = n + 1
    /\ firstMode = files
    /\ seed = 0
    /\ lastOp = NoOp
    /\ restarts = 0
    /\ ppc = [p \in Producers |-> "none"]
    /\ mpc = "serving"
    /\ gRunning = TRUE
    /\ monRunning = TRUE

InitIpc == IpcInit /\ InitIpcRest

NextIpc ==
    \/ \E c \in Conns : ClientConnect(c)
    \/ \E c \in Conns, ch \in Chunks : ClientSend(c, ch)
    \/ \E c \in Conns : ClientClose(c)
    \/ IpcAccept
    \/ \E i \in ClientSlots : IpcRead(i)
    \/ IpcSyncSend
    \/ IpcBroadcast

SpecIpc == InitIpc /\ [][NextIpc]_vars

\* Messages around the framing limit: a command line of 24 bytes; command
\* lines padded to ALERT_MSG_MAX and ALERT_MSG_MAX + 1 bytes, newline
\* included; white space that, followed by the 24-byte line, makes a message
\* of ALERT_MSG_MAX - 1 bytes; ALERT_MSG_MAX - 1 bytes without a newline.
FrameChunks ==
    {Piece(24, TRUE, "sync_state"),
     Piece(ALERT_MSG_MAX, TRUE, "sync_state"),
     Piece(ALERT_MSG_MAX + 1, TRUE, "sync_state"),
     Piece(ALERT_MSG_MAX - 25, FALSE, "none"),
     Piece(ALERT_MSG_MAX - 1, FALSE, "none")}

NextFrame ==
    \/ \E c \in Conns : ClientConnect(c)
    \/ \E c \in Conns, ch \in FrameChunks : ClientSend(c, ch)
    \/ \E c \in Conns : ClientClose(c)
    \/ IpcAccept
    \/ \E i \in ClientSlots : IpcRead(i)
    \/ IpcSyncSend

SpecFrame == InitIpc /\ [][NextFrame]_vars

\* A command line of n bytes, newline included, with this action and id.
Command(n, act, id) == [Piece(n, TRUE, act) EXCEPT !.id = id]

\* Command lines a client may send: sync_state; text that is not JSON; an
\* object without a string "action", with and without an id; an unknown
\* action, with and without an id; restore and delete without an id, and
\* with the id of a manifest entry.
CmdChunks ==
    {Command(24, "sync_state", NoId),
     Command(8, "malformed", NoId),
     Command(12, "no_action", NoId),
     Command(11, "no_action", <<0, 1>>),
     Command(18, "ping", NoId),
     Command(62, "ping", <<0, 1>>),
     Command(21, "restore", NoId),
     Command(20, "delete", NoId),
     Command(65, "restore", <<0, 1>>),
     Command(64, "delete", <<0, 2>>)}

NextCmd ==
    \/ \E c \in Conns : ClientConnect(c)
    \/ \E c \in Conns, ch \in CmdChunks : ClientSend(c, ch)
    \/ \E c \in Conns : ClientClose(c)
    \/ IpcAccept
    \/ \E i \in ClientSlots : IpcRead(i)
    \/ IpcSyncSend

SpecCmd == InitIpc /\ [][NextCmd]_vars

\* The server after ALERT_MAX_CLIENTS - 1 or ALERT_MAX_CLIENTS - 2 clients
\* connected and stay connected without sending: they hold the first slots,
\* with the descriptors and connection numbers above those of Conns.
Residents == (MaxConns + 1)..(MaxConns + ALERT_MAX_CLIENTS - 1)
IpcCrowded ==
    \E k \in {ALERT_MAX_CLIENTS - 2, ALERT_MAX_CLIENTS - 1} :
        /\ clientFd = [i \in ClientSlots |->
                          IF i <= k THEN MaxConns + i ELSE NoFd]
        /\ clientBufLen = [i \in ClientSlots |-> 0]
        /\ clientCount = k
        /\ fdConn = [fd \in Fds \cup Residents |->
                        IF fd \in (MaxConns + 1)..(MaxConns + k)
                        THEN fd ELSE NoConn]
        /\ connState = [c \in Conns \cup Residents |->
                           IF c \in (MaxConns + 1)..(MaxConns + k)
                           THEN "open" ELSE "none"]
        /\ pending = [c \in Conns \cup Residents |-> NoChunk]
        /\ rcvd = [c \in Conns \cup Residents |-> <<>>]
        /\ syncFd = NoFd
        /\ syncLeft = <<>>
        /\ syncReq = NoReq
        /\ bcasts = 0
        /\ frames = 0

InitCrowded == IpcCrowded /\ InitIpcRest

\* The resident that may disconnect: the one in the first slot.
Leavers == {MaxConns + 1}

\* Clients come and go and the main loop serves them.
NextCrowded ==
    \/ \E c \in Conns : ClientConnect(c)
    \/ \E c \in Conns, ch \in Chunks : ClientSend(c, ch)
    \/ \E c \in Conns \cup Leavers : ClientClose(c)
    \/ IpcAccept
    \/ \E i \in ClientSlots : IpcRead(i)

SpecCrowded == InitCrowded /\ [][NextCrowded]_vars

\* ------------------------------------------- main.c: the end of main

Stopping == [type |-> "status", id |-> NoId]

PoolFrame ==
    UNCHANGED <<poolVars, threadVars, gRunning, monRunning, histVars, extVars>>

\* main skipping the final broadcast.
MainSkipFinalBroadcast ==
    /\ mpc = "stopped"
    /\ mpc' = "final_service"
    /\ UNCHANGED <<storeVars, scanVars, ipcVars, extVars>>
    /\ PoolFrame

\* main, line 486: alert_broadcast(STATUS, "Daemon stopping").
MainFinalBroadcast ==
    /\ mpc = "stopped"
    /\ \E again \in SUBSET {i \in ClientSlots : clientFd[i] >= 0} :
        SetIpc(AlertBroadcast(IpcState, Stopping, again))
    /\ bcasts' = bcasts + 1
    /\ mpc' = "final_service"
    /\ UNCHANGED <<pending, syncFd, syncLeft, syncReq, frames>>
    /\ UNCHANGED <<storeVars, scanVars>>
    /\ PoolFrame

\* main, line 487: alert_server_service(100); select times out or a
\* waiting connection is accepted.
MainFinalService ==
    /\ mpc = "final_service"
    /\ \/ AcceptOne
       \/ UNCHANGED <<clientFd, clientBufLen, clientCount, fdConn, connState>>
    /\ mpc' = "alert_shutdown"
    /\ UNCHANGED <<pending, rcvd, syncFd, syncLeft, syncReq, bcasts, frames>>
    /\ UNCHANGED <<storeVars, scanVars>>
    /\ PoolFrame

\* alert_server_shutdown, alert.c lines 429-452: every used slot's
\* descriptor is closed, then the listening socket.
AlertServerShutdown(st) ==
    [st EXCEPT !.fd = [i \in ClientSlots |-> NoFd],
               !.cnt = 0,
               !.fdc = [fd \in Fds |->
                          IF \E i \in ClientSlots : st.fd[i] = fd
                          THEN NoConn ELSE st.fdc[fd]],
               !.cs = [c \in Conns |->
                          IF \E i \in ClientSlots :
                                st.fd[i] >= 0 /\ st.fdc[st.fd[i]] = c
                          THEN "shutdown_closed" ELSE st.cs[c]]]

\* main, line 488: alert_server_shutdown().
MainAlertShutdown ==
    /\ mpc = "alert_shutdown"
    /\ SetIpc(AlertServerShutdown(IpcState))
    /\ mpc' = "quarantine_shutdown"
    /\ UNCHANGED <<pending, syncFd, syncLeft, syncReq, bcasts, frames>>
    /\ UNCHANGED <<storeVars, scanVars>>
    /\ PoolFrame

\* main, lines 490-496: quarantine_shutdown() saves the manifest; main
\* returns.
MainQuarantineShutdown ==
    /\ mpc = "quarantine_shutdown"
    /\ mpc' = "exited"
    /\ UNCHANGED <<storeVars, scanVars, ipcVars, extVars>>
    /\ PoolFrame

Next ==
    \/ MonitorLoop
    \/ MonitorEvent
    \/ SubmitLocked(Monitor, "event")
    \/ \E w \in Workers : WorkerTop(w)
    \/ \E w \in Workers : WorkFn(w)
    \/ SpuriousWake
    \/ SignalHandler
    \/ MainStopMonitor
    \/ MainJoinMonitor
    \/ MainPoolShutdown
    \/ \E c \in Conns : ClientConnect(c)
    \/ IpcAccept
    \/ MainFinalBroadcast
    \/ MainFinalService
    \/ MainAlertShutdown
    \/ MainQuarantineShutdown

Spec == Init /\ [][Next]_vars

\* ------------------------------------------- the calls and their mutexes

BaseFrame ==
    UNCHANGED <<poolVars, threadVars, mainVars, histVars, storeVars, scanVars,
                ipcVars>>

Lk(m) == [op |-> "lock", m |-> m]
Ul(m) == [op |-> "unlock", m |-> m]

\* logger_log, logger.c lines 107-127: every log_info, log_warn and
\* log_error call takes s_log_mutex around its write to the log file.
LogCall == <<Lk("log"), Ul("log")>>

\* threadpool_submit, threadpool.c lines 189-228, with room in the queue.
SubmitCall == <<Lk("queue"), Ul("queue")>>
\* The same on a full queue, lines 205-209: log_warn under the mutex, then
\* pthread_cond_wait, which releases the mutex and takes it again.
SubmitFullCall ==
    <<Lk("queue")>> \o LogCall \o <<Ul("queue"), Lk("queue"), Ul("queue")>>

\* worker_main, threadpool.c lines 67-94, without and with a wait.
DequeueCall == <<Lk("queue"), Ul("queue")>>
DequeueWaitCall == <<Lk("queue"), Ul("queue"), Lk("queue"), Ul("queue")>>

\* alert_broadcast, alert.c lines 350-378, every write succeeding.
BroadcastCall == <<Lk("ipc"), Ul("ipc")>>
\* The same with a write that fails with EPIPE: log_warn (line 365) and
\* close_client's log_info (line 99), both under s_alert_mutex.
BroadcastCloseCall == <<Lk("ipc")>> \o LogCall \o LogCall \o <<Ul("ipc")>>

\* alert_send_to_client, alert.c lines 393-396, the write succeeding.
SendCall == <<Lk("ipc"), Ul("ipc")>>
\* The same with a failed write, lines 398-424: log_warn without a mutex,
\* then close_client under s_alert_mutex.
SendFailCall ==
    <<Lk("ipc"), Ul("ipc")>> \o LogCall \o <<Lk("ipc")>> \o LogCall
        \o <<Ul("ipc")>>

\* A quarantine_file that logs around its critical section.
QuarantineFileLogFirst ==
    <<Lk("log"), Lk("quarantine"), Ul("quarantine"), Ul("log")>>

\* quarantine_file, quarantine.c lines 165-227, returning 0: log_info of
\* line 225 under s_qr_mutex.
QuarantineFileCall == <<Lk("quarantine")>> \o LogCall \o <<Ul("quarantine")>>
\* quarantine_restore and quarantine_delete, lines 235-281 and 289-317.
QuarantineRestoreCall ==
    <<Lk("quarantine")>> \o LogCall \o <<Ul("quarantine")>>
\* quarantine_list, lines 325-368.
QuarantineListCall == <<Lk("quarantine"), Ul("quarantine")>>

\* What each thread calls: the monitor thread on_file_event (main.c line
\* 281), a worker worker_main and scan_worker, the main thread
\* alert_server_service and on_gui_command.
Calls(t) ==
    IF t = "monitor" THEN {SubmitCall, SubmitFullCall}
    ELSE IF t \in {"worker", "worker2"}
    THEN {DequeueCall, DequeueWaitCall, LogCall, BroadcastCall,
          BroadcastCloseCall, QuarantineFileCall}
    ELSE {LogCall, BroadcastCall, BroadcastCloseCall, SendCall, SendFailCall,
          QuarantineRestoreCall, QuarantineListCall}

Holds(t, m) == \E k \in 1..Len(lheld[t]) : lheld[t][k] = m

\* Thread t enters one of its calls.
LockCall(t) ==
    /\ lprog[t] = <<>>
    /\ \E c \in Calls(t) : lprog' = [lprog EXCEPT ![t] = c]
    /\ UNCHANGED <<lheld, raceVars, parseVars, tailVars>>
    /\ BaseFrame

\* pthread_mutex_lock returns when no thread holds the mutex;
\* pthread_mutex_unlock.
LockStep(t) ==
    /\ lprog[t] # <<>>
    /\ LET o == Head(lprog[t])
       IN IF o.op = "lock"
          THEN /\ \A u \in LockThreads : ~Holds(u, o.m)
               /\ lheld' = [lheld EXCEPT ![t] = Append(@, o.m)]
          ELSE lheld' = [lheld EXCEPT ![t] =
                            SelectSeq(@, LAMBDA x : x # o.m)]
    /\ lprog' = [lprog EXCEPT ![t] = Tail(@)]
    /\ UNCHANGED <<raceVars, parseVars, tailVars>>
    /\ BaseFrame

InitLock ==
    /\ PoolInit
    /\ IpcInit
    /\ ExtInit
    /\ StoreIdle
    /\ ppc = [p \in Producers |-> "none"]
    /\ mpc = "serving"
    /\ gRunning = TRUE
    /\ monRunning = TRUE

NextLock ==
    \/ \E t \in LockThreads : LockCall(t)
    \/ \E t \in LockThreads : LockStep(t)

SpecLock == InitLock /\ [][NextLock]_vars

\* ------------------- alert.c: the main thread and a worker, step by step

\* alert_server_service (lines 267-319) takes no mutex; alert_broadcast
\* (lines 350-378) holds s_alert_mutex.  Each step below is one access to
\* s_clients or s_client_count, or one system call.
RaceFrame ==
    UNCHANGED <<poolVars, threadVars, mainVars, histVars, storeVars, scanVars,
                lockVars, parseVars, tailVars, pending, syncFd, syncLeft,
                syncReq, frames>>

\* Where a thread continues when its close_client call returns.
AfterClose(t) == IF t = "worker" THEN "b_next" ELSE "idle"

\* alert_server_service, lines 293-300: accept(), find_free_slot, the slot
\* is filled; s_client_count is read for the increment of line 301.
RaceAccept ==
    /\ rpc["main"] = "idle"
    /\ \E c \in Conns :
        /\ connState[c] = "pending"
        /\ \A d \in Conns : d < c => connState[d] # "pending"
        /\ LET fd == LowestFreeFd
               i == FindFreeSlot
           IN IF i # 0
              THEN /\ clientFd' = [clientFd EXCEPT ![i] = fd]
                   /\ clientBufLen' = [clientBufLen EXCEPT ![i] = 0]
                   /\ fdConn' = [fdConn EXCEPT ![fd] = c]
                   /\ connState' = [connState EXCEPT ![c] = "open"]
                   /\ rcnt' = [rcnt EXCEPT !["main"] = clientCount]
                   /\ rpc' = [rpc EXCEPT !["main"] = "inc"]
              ELSE /\ connState' = [connState EXCEPT ![c] = "closed"]
                   /\ UNCHANGED <<clientFd, clientBufLen, fdConn, rcnt, rpc>>
    /\ UNCHANGED <<clientCount, rcvd, bcasts, rslot, rfd, doubleClose,
                   staleWrite>>
    /\ RaceFrame

\* Line 301: s_client_count++ stores the value read plus one.
RaceIncrement ==
    /\ rpc["main"] = "inc"
    /\ clientCount' = rcnt["main"] + 1
    /\ rpc' = [rpc EXCEPT !["main"] = "idle"]
    /\ UNCHANGED <<clientFd, clientBufLen, fdConn, connState, rcvd, bcasts,
                   rslot, rfd, rcnt, doubleClose, staleWrite>>
    /\ RaceFrame

\* Lines 313-316: read() on slot i returns 0 after the peer has closed;
\* handle_client_data returns -1 and close_client is entered.
RaceReadEof(i) ==
    /\ rpc["main"] = "idle"
    /\ clientFd[i] >= 0
    /\ fdConn[clientFd[i]] # NoConn
    /\ connState[fdConn[clientFd[i]]] = "peer_closed"
    /\ rpc' = [rpc EXCEPT !["main"] = "cc_check"]
    /\ rslot' = [rslot EXCEPT !["main"] = i]
    /\ UNCHANGED <<clientFd, clientBufLen, clientCount, fdConn, connState,
                   rcvd, bcasts, rfd, rcnt, doubleClose, staleWrite>>
    /\ RaceFrame

\* close_client, line 94: if (c->fd < 0) return.
RaceCloseCheck(t) ==
    /\ rpc[t] = "cc_check"
    /\ IF clientFd[rslot[t]] < 0
       THEN /\ rpc' = [rpc EXCEPT ![t] = AfterClose(t)]
            /\ UNCHANGED rfd
       ELSE /\ rpc' = [rpc EXCEPT ![t] = "cc_close"]
            /\ rfd' = [rfd EXCEPT ![t] = clientFd[rslot[t]]]
    /\ UNCHANGED <<clientFd, clientBufLen, clientCount, fdConn, connState,
                   rcvd, bcasts, rslot, rcnt, doubleClose, staleWrite>>
    /\ RaceFrame

\* close_client, line 95: close(c->fd), on the value read by the test or on
\* the value c->fd has now.
RaceCloseClose(t) ==
    /\ rpc[t] = "cc_close"
    /\ \E fd \in {rfd[t], clientFd[rslot[t]]} :
        IF fd >= 0 /\ fdConn[fd] # NoConn
        THEN /\ fdConn' = [fdConn EXCEPT ![fd] = NoConn]
             /\ connState' = [connState EXCEPT ![fdConn[fd]] = "closed"]
             /\ UNCHANGED doubleClose
        ELSE /\ doubleClose' = TRUE
             /\ UNCHANGED <<fdConn, connState>>
    /\ rpc' = [rpc EXCEPT ![t] = "cc_clear"]
    /\ UNCHANGED <<clientFd, clientBufLen, clientCount, rcvd, bcasts, rslot,
                   rfd, rcnt, staleWrite>>
    /\ RaceFrame

\* close_client, lines 96-98: c->fd = -1, c->buf_len = 0, and the read of
\* s_client_count for the decrement.
RaceCloseClear(t) ==
    /\ rpc[t] = "cc_clear"
    /\ clientFd' = [clientFd EXCEPT ![rslot[t]] = NoFd]
    /\ clientBufLen' = [clientBufLen EXCEPT ![rslot[t]] = 0]
    /\ rcnt' = [rcnt EXCEPT ![t] = clientCount]
    /\ rpc' = [rpc EXCEPT ![t] = "cc_dec"]
    /\ UNCHANGED <<clientCount, fdConn, connState, rcvd, bcasts, rslot, rfd,
                   doubleClose, staleWrite>>
    /\ RaceFrame

\* close_client, line 98: s_client_count-- stores the value read minus one.
RaceCloseDecrement(t) ==
    /\ rpc[t] = "cc_dec"
    /\ clientCount' = rcnt[t] - 1
    /\ rpc' = [rpc EXCEPT ![t] = AfterClose(t)]
    /\ UNCHANGED <<clientFd, clientBufLen, fdConn, connState, rcvd, bcasts,
                   rslot, rfd, rcnt, doubleClose, staleWrite>>
    /\ RaceFrame

\* alert_broadcast, lines 350-352: the mutex is taken, i = 0.
RaceBroadcastStart ==
    /\ rpc["worker"] = "idle"
    /\ bcasts < MaxBroadcasts
    /\ bcasts' = bcasts + 1
    /\ rpc' = [rpc EXCEPT !["worker"] = "b_check"]
    /\ rslot' = [rslot EXCEPT !["worker"] = 1]
    /\ UNCHANGED <<clientFd, clientBufLen, clientCount, fdConn, connState,
                   rcvd, rfd, rcnt, doubleClose, staleWrite>>
    /\ RaceFrame

\* Lines 352-353: the loop test and if (s_clients[i].fd >= 0); line 378
\* when the loop is over.
RaceBroadcastCheck ==
    /\ rpc["worker"] = "b_check"
    /\ IF rslot["worker"] > ALERT_MAX_CLIENTS
       THEN /\ rpc' = [rpc EXCEPT !["worker"] = "idle"]
            /\ rslot' = [rslot EXCEPT !["worker"] = 1]
            /\ UNCHANGED rfd
       ELSE IF clientFd[rslot["worker"]] < 0
       THEN /\ rslot' = [rslot EXCEPT !["worker"] = @ + 1]
            /\ UNCHANGED <<rpc, rfd>>
       ELSE /\ rfd' = [rfd EXCEPT !["worker"] = clientFd[rslot["worker"]]]
            /\ rpc' = [rpc EXCEPT !["worker"] = "b_write"]
            /\ UNCHANGED rslot
    /\ UNCHANGED <<clientFd, clientBufLen, clientCount, fdConn, connState,
                   rcvd, bcasts, rcnt, doubleClose, staleWrite>>
    /\ RaceFrame

\* Line 354: write(s_clients[i].fd, ...), on the value read by the test or
\* on the value the field has now; lines 355-373 choose what follows.
RaceBroadcastWrite ==
    /\ rpc["worker"] = "b_write"
    /\ \E fd \in {rfd["worker"], clientFd[rslot["worker"]]}, again \in BOOLEAN :
        IF fd < 0 \/ fdConn[fd] = NoConn
        THEN /\ staleWrite' = TRUE
             /\ rpc' = [rpc EXCEPT !["worker"] = "cc_check"]
             /\ UNCHANGED rcvd
        ELSE IF connState[fdConn[fd]] = "peer_closed"
        THEN /\ rpc' = [rpc EXCEPT !["worker"] = "cc_check"]
             /\ UNCHANGED <<rcvd, staleWrite>>
        ELSE /\ rcvd' = IF again THEN rcvd
                        ELSE [rcvd EXCEPT ![fdConn[fd]] =
                                 Append(@, Event(bcasts))]
             /\ rpc' = [rpc EXCEPT !["worker"] = "b_next"]
             /\ UNCHANGED staleWrite
    /\ UNCHANGED <<clientFd, clientBufLen, clientCount, fdConn, connState,
                   bcasts, rslot, rfd, rcnt, doubleClose>>
    /\ RaceFrame

\* Line 352: i++.
RaceBroadcastNext ==
    /\ rpc["worker"] = "b_next"
    /\ rslot' = [rslot EXCEPT !["worker"] = @ + 1]
    /\ rpc' = [rpc EXCEPT !["worker"] = "b_check"]
    /\ UNCHANGED <<clientFd, clientBufLen, clientCount, fdConn, connState,
                   rcvd, bcasts, rfd, rcnt, doubleClose, staleWrite>>
    /\ RaceFrame

\* A client connects or closes its end.
RaceClient ==
    /\ \/ \E c \in Conns : ClientConnect(c)
       \/ \E c \in Conns : ClientClose(c)

InitRace == InitLock

NextRace ==
    \/ RaceClient
    \/ RaceAccept
    \/ RaceIncrement
    \/ \E i \in ClientSlots : RaceReadEof(i)
    \/ \E t \in RaceThreads : RaceCloseCheck(t)
    \/ \E t \in RaceThreads : RaceCloseClose(t)
    \/ \E t \in RaceThreads : RaceCloseClear(t)
    \/ \E t \in RaceThreads : RaceCloseDecrement(t)
    \/ RaceBroadcastStart
    \/ RaceBroadcastCheck
    \/ RaceBroadcastWrite
    \/ RaceBroadcastNext

SpecRace == InitRace /\ [][NextRace]_vars

\* ------------------------------------------ scanner.c: the reply parser

\* A reply is a sequence of pieces of text: the three tokens strstr looks
\* for, the "stream:" prefix, and text that holds none of the tokens.
ReplyPieces == {" FOUND", " OK", " ERROR", "stream:", "text"}
Replies == UNION {[1..n -> ReplyPieces] : n \in 0..MaxReply}

\* strstr(resp, token) != NULL
Contains(r, token) == \E k \in 1..Len(r) : r[k] = token

\* scanner_scan_file from the response on, lines 195-236; report->result
\* was set to SCAN_RESULT_ERROR at line 111.
ParseReply(r) ==
    IF Len(r) = 0
    THEN [called |-> TRUE, ret |-> 0 - 1, result |-> "SCAN_RESULT_ERROR"]
    ELSE IF Contains(r, " FOUND")
    THEN [called |-> TRUE, ret |-> 0, result |-> "SCAN_RESULT_INFECTED"]
    ELSE IF Contains(r, " OK")
    THEN [called |-> TRUE, ret |-> 0, result |-> "SCAN_RESULT_CLEAN"]
    ELSE [called |-> TRUE, ret |-> 0, result |-> "SCAN_RESULT_ERROR"]

\* One scanner_scan_file call that got as far as reading the response.
ScannerScanFile ==
    /\ ~report.called
    /\ report' = ParseReply(reply)
    /\ UNCHANGED <<reply, lockVars, raceVars, tailVars>>
    /\ BaseFrame

InitParse ==
    /\ PoolInit
    /\ IpcInit
    /\ LockInit
    /\ RaceInit
    /\ reply \in Replies
    /\ report = NoReport
    /\ TailInit
    /\ StoreIdle
    /\ ppc = [p \in Producers |-> "none"]
    /\ mpc = "serving"
    /\ gRunning = TRUE
    /\ monRunning = TRUE

NextParse == ScannerScanFile

SpecParse == InitParse /\ [][NextParse]_vars

\* ------------------------------------------------ monitor.c: the watches

WatchFrame ==
    /\ BaseFrame
    /\ UNCHANGED <<lockVars, raceVars, parseVars, modeVars, frameVars,
                   retryVars, ev, cbPath, subscribed, evCount>>

\* monitor_create, lines 187-201: calloc and inotify_init1; NULL when
\* inotify_init1 fails, otherwise the loop over dirs[] starts.
MonitorCreate ==
    /\ monRet = "none"
    /\ wdTodo = <<>>
    /\ \A dir \in AllDirs : wdTried[dir] = "none"
    /\ \/ /\ wdTodo' = WATCH_DIRS
          /\ monRet' = "adding"
       \/ /\ wdTodo' = <<>>
          /\ monRet' = "NULL"
    /\ UNCHANGED <<wdTried, watchesAdded, watchesFailed, enospcLogged, hints,
                   wdMap>>
    /\ WatchFrame

LogHintAlways == TRUE

\* add_watch_recursive, line 134: the banner is logged when enospc_logged
\* is still 0.
LogHint == ~enospcLogged

\* add_watch_recursive, lines 121-179, for the next directory: the call
\* inotify_add_watch gives a descriptor or fails. ENOSPC counts a failure
\* and logs the banner once; EACCES and ENOENT are skipped; any other errno
\* returns -1, which neither the recursion (line 174) nor the loop of
\* monitor_create (lines 205-207) treats as the end. A watched directory is
\* followed by its visible subdirectories, depth first.
AddWatchRecursive ==
    /\ monRet \in {"adding", "subscribing"}
    /\ wdTodo # <<>>
    /\ LET dir == Head(wdTodo)
       IN \E res \in WatchResults :
            /\ wdTried' = [wdTried EXCEPT ![dir] = res]
            /\ watchesFailed' =
                  IF res = "ENOSPC" THEN watchesFailed + 1 ELSE watchesFailed
            /\ enospcLogged' = (enospcLogged \/ res = "ENOSPC")
            /\ hints' = IF res = "ENOSPC" /\ LogHint THEN hints + 1 ELSE hints
            /\ watchesAdded' =
                  IF res = "ok" THEN watchesAdded + 1 ELSE watchesAdded
            /\ wdTodo' = IF res = "ok" THEN Children(dir) \o Tail(wdTodo)
                         ELSE Tail(wdTodo)
            \* wd_map_put, lines 50-59: no entry when malloc fails
            /\ \/ wdMap' = (IF res = "ok" THEN wdMap \cup {dir} ELSE wdMap)
               \/ res = "ok" /\ dir \notin wdMap /\ wdMap' = wdMap
    /\ UNCHANGED monRet
    /\ WatchFrame

\* monitor_create, lines 210-220: the summary is logged and ctx returned.
MonitorCreateReturn ==
    /\ monRet = "adding"
    /\ wdTodo = <<>>
    /\ monRet' = "ctx"
    /\ UNCHANGED <<wdTodo, wdTried, watchesAdded, watchesFailed, enospcLogged,
                   hints, wdMap>>
    /\ WatchFrame

\* monitor_run, line 260: event->name[0] == '.'.
StartsWithDot(name) == name \in {".cache"}

\* An event that passes every test of the loop body.
PassesAlways(e) == TRUE

\* monitor_run, lines 257-263: the event has a name, the name does not
\* start with '.', and wd_map_get finds the handle.
PassesNameAndHandle(e) ==
    /\ e.name # ""
    /\ ~StartsWithDot(e.name)
    /\ e.wd \in wdMap

\* monitor_run, line 266: snprintf("%s/%s", parent, event->name), as the
\* directory name and as the path handed to the callback.
JoinDir(e) == e.wd \o "/" \o e.name
JoinPath(e) == <<e.wd, e.name>>

\* The events the kernel can deliver: for a registered watch, and a
\* directory event names a directory of the tree.
Events ==
    {e \in [name : EventNames, wd : {d \in AllDirs : wdTried[d] = "ok"},
            isdir : BOOLEAN, kind : EventKinds, st : StatResults] :
        /\ e.isdir => (e.name = "" \/ JoinDir(e) \in AllDirs)
        /\ e.isdir => e.st \in {"ENOENT", "DIR"}
        /\ (e.name # "" /\ ~e.isdir) => e.st # "DIR"}

\* monitor_run, lines 253-283: the loop body for one event of the buffer.
MonitorRunEvent ==
    /\ monRet = "ctx"
    /\ evCount < MaxEvents
    /\ \E e \in Events :
        /\ ev' = e
        /\ evCount' = evCount + 1
        /\ IF ~PassesNameAndHandle(e)
           THEN \* lines 257, 260, 263: continue
                /\ cbPath' = NoPath
                /\ subscribed' = NoDir
                /\ UNCHANGED <<wdTodo, monRet>>
           ELSE IF e.isdir
           THEN \* lines 269-275
                /\ cbPath' = NoPath
                /\ IF e.kind \in {"IN_CREATE", "IN_MOVED_TO"}
                   THEN /\ subscribed' = JoinDir(e)
                        /\ wdTodo' = <<JoinDir(e)>>
                        /\ monRet' = "subscribing"
                   ELSE /\ subscribed' = NoDir
                        /\ UNCHANGED <<wdTodo, monRet>>
           ELSE \* lines 278-282
                /\ cbPath' = IF e.st = "REG" THEN JoinPath(e) ELSE NoPath
                /\ subscribed' = NoDir
                /\ UNCHANGED <<wdTodo, monRet>>
    /\ UNCHANGED <<wdTried, watchesAdded, watchesFailed, enospcLogged, hints,
                   wdMap>>
    /\ BaseFrame
    /\ UNCHANGED <<lockVars, raceVars, parseVars, modeVars, frameVars,
                   retryVars>>

\* monitor_run, lines 272-274: add_watch_recursive has returned; log and
\* continue with the next event.
MonitorRunSubscribed ==
    /\ monRet = "subscribing"
    /\ wdTodo = <<>>
    /\ monRet' = "ctx"
    /\ UNCHANGED <<wdTodo, wdTried, watchesAdded, watchesFailed, enospcLogged,
                   hints, wdMap>>
    /\ WatchFrame

InitWatch == InitLock

NextWatch ==
    \/ MonitorCreate
    \/ AddWatchRecursive
    \/ MonitorCreateReturn

SpecWatch == InitWatch /\ [][NextWatch]_vars

\* monitor_create followed by monitor_run.
NextEvent ==
    \/ NextWatch
    \/ MonitorRunEvent
    \/ MonitorRunSubscribed

SpecEvent == InitWatch /\ [][NextEvent]_vars

\* --------------------------------------------------------------- claims

\* Items that strdup has produced so far.
Allocated == 1..(nextItem - 1)
InQueue(i) == \E s \in Slots : queue[s] = i
HeldBySubmitter(i) ==
    \E p \in Producers : pitem[p] = i /\ ppc[p] \in {"submit", "woken", "wait_nf"}
HeldByWorker(i) == \E w \in Workers : witem[w] = i

C5_StrictFIFO ==
    /\ Len(deqSeq) <= Len(enqSeq)
    /\ \A k \in 1..Len(deqSeq) : deqSeq[k] = enqSeq[k]

\* C5 witness: more items than the buffer has slots have been dequeued
\* (head and tail have wrapped around), two of them while both were queued.
C5_Witness ==
    /\ Len(deqSeq) > Capacity
    /\ head = tail /\ count = 0

\* The path a finished or running scan_worker call was given, and whether
\* the manifest has an entry for it whose quarantined file has mode 0000.
Enqueued(i) == \E k \in 1..Len(enqSeq) : enqSeq[k] = i
Dequeued(i) == \E k \in 1..Len(deqSeq) : deqSeq[k] = i
QuarantinedLocked(path) ==
    \E k \in 1..Len(manifest) :
        /\ manifest[k].original_path = path
        /\ QMode(qfiles, manifest[k].quarantine_path) = Mode0000

\* C1 (fail-closed lockdown): when a scan_worker run whose every
\* scanner_scan_file call failed returns, and the file is at its original
\* path, the file has mode 0000.
C1_FailClosedLockdown ==
    \A w \in Workers :
        (/\ wpc[w] = "ret"
         /\ outcome[w] = "lockdown"
         /\ attempts[w] = SCAN_MAX_RETRIES + 1
         /\ files[ScanPath(w)] # Absent)
        => files[ScanPath(w)] = Mode0000

\* C4 (exactly-once dispatch): work_fn is entered at most once for a path
\* and the path is freed at most once and only after work_fn was entered;
\* no two workers hold the same path; a path is dequeued at most once; an
\* enqueued path is in the queue and untouched, or with one worker (work_fn
\* entered once it has started, not yet freed), or work_fn has been entered
\* once and has freed it once, whatever exit it took; nothing is dropped.
C4_ExactlyOnceDispatch ==
    /\ dropped = {}
    /\ residual = {}
    /\ \A i \in Items :
        /\ called[i] <= 1
        /\ freed[i] <= called[i]
        /\ Cardinality({k \in 1..Len(deqSeq) : deqSeq[k] = i}) <= 1
        /\ ~Enqueued(i) => called[i] = 0 /\ ~Dequeued(i)
        /\ Enqueued(i) =>
            \/ /\ InQueue(i)
               /\ ~Dequeued(i) /\ ~HeldByWorker(i)
               /\ called[i] = 0
            \/ /\ HeldByWorker(i)
               /\ Dequeued(i) /\ ~InQueue(i)
               /\ freed[i] = 0
               /\ \A w \in Workers :
                    witem[w] = i =>
                        called[i] = IF wpc[w] = "work" THEN 0 ELSE 1
            \/ /\ Dequeued(i)
               /\ ~InQueue(i) /\ ~HeldByWorker(i)
               /\ called[i] = 1 /\ freed[i] = 1
    /\ \A w1, w2 \in Workers :
        (witem[w1] # NULL /\ witem[w1] = witem[w2]) => w1 = w2
    /\ \A k \in 1..Len(deqSeq) : deqSeq[k] # NULL

\* C4 witness: a run is leaving scan_worker by the vanished-file exit while
\* another path has been through work_fn and was freed once.
C4_Witness ==
    \E w \in Workers :
        /\ wpc[w] = "ret"
        /\ outcome[w] = "vanished"
        /\ \E i \in Items :
            i # witem[w] /\ called[i] = 1 /\ freed[i] = 1

\* C6 (terminal states): when scan_worker returns for a path, the file is
\* (a) at its path with the mode it had at entry and the verdict was Clean,
\* or (b) gone from its path and under the quarantine root with mode 0000
\* and the verdict was Infected, or (c) at its path with mode 0000.
C6_TerminalStates ==
    \A w \in Workers :
        wpc[w] = "ret" =>
            \/ /\ outcome[w] = "clean"
               /\ files[ScanPath(w)] = origMode[w]
            \/ /\ outcome[w] = "quarantined"
               /\ files[ScanPath(w)] = Absent
               /\ QuarantinedLocked(ScanPath(w))
            \/ files[ScanPath(w)] = Mode0000

\* C7 (lockdown never reversed): no step of a scan_worker run changes the
\* mode of a file that is at its original path with mode 0000.
C7_LockdownNeverReversed ==
    [][\A path \in Paths :
          files[path] = Mode0000 => files'[path] \in {Mode0000, Absent}]_vars

\* C8 (quarantine coverage): when a scan_worker run whose verdict was
\* Infected returns, the file is gone from its path and a manifest entry
\* for it references a quarantined file of mode 0000, or the file at its
\* path has mode 0000.
C8_QuarantineCoverage ==
    \A w \in Workers :
        (wpc[w] = "ret" /\ outcome[w] \in {"quarantined", "qfailed"}) =>
            \/ files[ScanPath(w)] = Absent /\ QuarantinedLocked(ScanPath(w))
            \/ files[ScanPath(w)] = Mode0000

\* C9 (manifest uniqueness): no two manifest entries share an id and no two
\* share a quarantine_path.
C9_ManifestUniqueness ==
    \A j, k \in 1..Len(manifest) :
        j # k =>
            /\ manifest[j].id # manifest[k].id
            /\ manifest[j].quarantine_path # manifest[k].quarantine_path

\* C10 (quarantine/restore round trip): a quarantine_restore(id) call that
\* returns 0 right after the quarantine_file call that returned 0 and
\* created the entry id leaves a file of mode 0644 at the original path, no
\* file at the entry's quarantine_path and no manifest entry with that id.
C10_RestoreRoundTrip ==
    [][(/\ lastOp.op = "quarantine" /\ lastOp.ok
        /\ lastOp'.op = "restore" /\ lastOp'.ok
        /\ lastOp'.id = lastOp.id)
       => LET e == manifest[ManifestFind(lastOp.id)]
          IN /\ files'[e.original_path] = Mode0644
             /\ QMode(qfiles', e.quarantine_path) = Absent
             /\ \A k \in 1..Len(manifest') : manifest'[k].id # lastOp.id
      ]_vars

\* C11 (quarantine/delete round trip): a quarantine_delete(id) call that
\* returns 0 right after the quarantine_file call that returned 0 and
\* created the entry id leaves no file at the original path, no file at the
\* entry's quarantine_path and no manifest entry with that id.
C11_DeleteRoundTrip ==
    [][(/\ lastOp.op = "quarantine" /\ lastOp.ok
        /\ lastOp'.op = "delete" /\ lastOp'.ok
        /\ lastOp'.id = lastOp.id)
       => LET e == manifest[ManifestFind(lastOp.id)]
          IN /\ files'[e.original_path] = Absent
             /\ QMode(qfiles', e.quarantine_path) = Absent
             /\ \A k \in 1..Len(manifest') : manifest'[k].id # lastOp.id
      ]_vars

\* C12 (restore failure is fail-closed): a quarantine_restore(id) call that
\* finds the entry and returns -1 leaves the manifest as it was and the
\* entry's quarantined file at mode 0000.
C12_RestoreFailClosed ==
    [][(/\ lastOp'.op = "restore" /\ ~lastOp'.ok
        /\ lastOp' # lastOp
        /\ ManifestFind(lastOp'.id) # 0)
       => /\ manifest' = manifest
          /\ QMode(qfiles',
                   manifest[ManifestFind(lastOp'.id)].quarantine_path)
                = Mode0000
      ]_vars

\* C13 (quarantined files stay locked): between quarantine store calls,
\* every manifest entry's quarantine_path exists with mode 0000.
C13_QuarantinedStayLocked ==
    \A k \in 1..Len(manifest) :
        QMode(qfiles, manifest[k].quarantine_path) = Mode0000

C15_SyncReplySequence ==
    (/\ syncReq.conn # NoConn
     /\ syncFd = NoFd
     /\ connState[syncReq.conn] = "open")
    => LET log == rcvd[syncReq.conn]
           n == syncReq.n
       IN \E f \in (syncReq.start + 1)..Len(log) :
            /\ Len(log) >= f + n
            /\ \A k \in 1..n : log[f + k - 1] = SyncEntry(syncReq.snapshot[k])
            /\ log[f + n] = SyncComplete
            /\ \A j \in (syncReq.start + 1)..(f - 1) : log[j].type = "event"

\* C16: a sync_entry or sync_complete message is only ever written to the
\* connection whose sync_state command is being served.
C16_SyncPrivate ==
    [][\A c \in Conns :
          (/\ Len(rcvd'[c]) > Len(rcvd[c])
           /\ rcvd'[c][Len(rcvd'[c])].type \in {"sync_entry", "sync_complete"})
          => /\ syncFd # NoFd
             /\ c = syncReq.conn
      ]_vars

\* Two clients are connected; the first one's sync_state command over a
\* manifest of two entries has been answered in full, and the second one
\* has received a broadcast and nothing else.
C16_Witness ==
    /\ connState[1] = "open"
    /\ connState[2] = "open"
    /\ syncReq.conn = 1
    /\ syncReq.n = 2
    /\ syncFd = NoFd
    /\ \E k \in 1..Len(rcvd[1]) : rcvd[1][k] = SyncComplete
    /\ \E k \in 1..Len(rcvd[1]) : rcvd[1][k] = SyncEntry(manifest[2])
    /\ rcvd[2] # <<>>
    /\ \A k \in 1..Len(rcvd[2]) : rcvd[2][k].type = "event"

\* C17: the pool's shutdown flag is set only after the running flag was
\* cleared and the monitor thread has exited, so that no threadpool_submit
\* call is running or can start; the final status broadcast is made only
\* after every worker has exited; alert_server_shutdown closes client
\* connections only after that broadcast; and main gets past
\* quarantine_shutdown only with every client slot closed.
C17_ShutdownOrdering ==
    /\ shutdown => (~gRunning /\ ppc[Monitor] = "exited")
    /\ bcasts >= 1 => \A w \in Workers : wpc[w] = "exited"
    /\ (\E c \in Conns : connState[c] = "shutdown_closed") => bcasts >= 1
    /\ mpc = "exited" =>
        /\ \A i \in ClientSlots : clientFd[i] = NoFd
        /\ \A c \in Conns : connState[c] \notin {"open", "peer_closed"}
        /\ bcasts = 1

\* main has gone through the whole sequence with work done by the pool; a
\* client that was connected received the final broadcast before
\* alert_server_shutdown closed its connection.
C17_Witness ==
    /\ mpc = "exited"
    /\ processed >= 1
    /\ \E c \in Conns :
        /\ connState[c] = "shutdown_closed"
        /\ rcvd[c] = <<Stopping>>

\* C18: between two consecutive retry sleeps of one scan_worker run the
\* shutdown state is read and ends the loop when shutdown is requested: a
\* run whose last retry sleep began with shutdown already requested takes
\* no further retry sleep.
C18_RetryObservesShutdown ==
    [][\A w \in Workers :
          (wpc[w] = "retry" /\ wpc'[w] = "scan") => ~sleptInStop[w]
      ]_vars

\* C19: once the shutdown flag is set no worker waits on not_empty and no
\* producer waits on not_full, those that were waiting having been woken;
\* and, every work_fn call returning, threadpool_shutdown returns.
C19_ShutdownReleasesWaiters ==
    /\ [](shutdown =>
            /\ waitNE = {} /\ waitNF = {}
            /\ \A w \in Workers : wpc[w] # "wait_ne"
            /\ \A p \in Producers : ppc[p] # "wait_nf")
    /\ (shutdown ~> mpc = "destroyed")

\* The flag was set while the queue was full and a submitter was inside
\* threadpool_submit; the submitter was turned away, the queue was drained
\* and threadpool_shutdown has returned.
C19_Witness ==
    /\ mpc = "destroyed"
    /\ dropped # {}
    /\ processed = submitted
    /\ submitted >= Capacity
    /\ \A w \in Workers : wpc[w] = "exited"

\* C20: a worker leaves its loop only with the shutdown flag set and the
\* queue empty; so once every worker has exited the queue holds nothing and
\* every item that was enqueued has been passed to work_fn, and
\* threadpool_shutdown finds no residual item to free.
C20_DrainOnShutdown ==
    /\ [][\A w \in Workers :
            (wpc[w] # "exited" /\ wpc'[w] = "exited")
            => (shutdown /\ count = 0)]_vars
    /\ []((\A w \in Workers : wpc[w] = "exited") =>
            /\ count = 0
            /\ \A sl \in Slots : queue[sl] = NULL
            /\ \A i \in Items : Enqueued(i) => called[i] = 1)
    /\ [](residual = {})

\* The pool was shut down with work in it: the workers have gone through
\* everything that was enqueued, a later submission was turned away, and
\* the join found the queue empty.
C20_Witness ==
    /\ mpc = "destroyed"
    /\ Len(enqSeq) >= Capacity
    /\ Len(deqSeq) = Len(enqSeq)
    /\ \A i \in Items : Enqueued(i) => called[i] = 1
    /\ \E i \in dropped : ~Enqueued(i)
    /\ residual = {}

\* C21: no thread ever holds two of the four mutexes at once.
C21_OneMutexAtATime ==
    \A t \in LockThreads : Len(lheld[t]) <= 1

\* C22: with the main thread in alert_server_service and a worker in
\* alert_broadcast at the same time, no close() is issued on a client
\* descriptor that is already closed, no write() on a descriptor whose slot
\* was closed, and whenever neither thread is inside a slot update
\* s_client_count is the number of slots with fd >= 0.
C22_IpcThreadSafety ==
    /\ ~doubleClose
    /\ ~staleWrite
    /\ (\A t \in RaceThreads : rpc[t] \in {"idle", "b_check", "b_write", "b_next"})
        => clientCount = Cardinality({i \in ClientSlots : clientFd[i] >= 0})

\* C23: for a non-empty reply scanner_scan_file returns 0 with verdict
\* Infected when the reply contains " FOUND", otherwise Clean when it
\* contains " OK", otherwise ScannerError when it contains " ERROR"; when it
\* contains none of the three it returns non-zero.
C23_VerdictParsing ==
    (report.called /\ Len(reply) > 0) =>
        IF Contains(reply, " FOUND")
        THEN report.ret = 0 /\ report.result = "SCAN_RESULT_INFECTED"
        ELSE IF Contains(reply, " OK")
        THEN report.ret = 0 /\ report.result = "SCAN_RESULT_CLEAN"
        ELSE IF Contains(reply, " ERROR")
        THEN report.ret = 0 /\ report.result = "SCAN_RESULT_ERROR"
        ELSE report.ret # 0

\* C24 (Clean verdict leaves permissions unchanged): the step that ends a
\* scan_worker run with a Clean verdict leaves the file, when it is still at
\* its path, with the permission bits it had before any scan_worker run
\* touched it, also when two workers process the same path.
C24_CleanKeepsMode ==
    [][\A w \in Workers :
          (wpc[w] = "clean" /\ wpc'[w] = "ret" /\ files'[ScanPath(w)] # Absent)
              => files'[ScanPath(w)] = firstMode[ScanPath(w)]]_vars

\* The directories monitor_create has to try: those of WATCH_DIRS and the
\* visible subdirectories of every directory that got a watch.
Registrable ==
    {WATCH_DIRS[k] : k \in 1..Len(WATCH_DIRS)} \cup
    UNION {{Children(dir)[k] : k \in 1..Len(Children(dir))} :
              dir \in {e \in AllDirs : wdTried[e] = "ok"}}

\* C25 (watch-limit degradation): whatever number of subscriptions fail with
\* ENOSPC, monitor_create returns a context, watches_failed is the number
\* of those failures, the 'limit reached' banner has been logged once, and
\* every remaining directory has been tried.
C25_WatchLimitDegradation ==
    /\ watchesFailed = Cardinality({dir \in AllDirs : wdTried[dir] = "ENOSPC"})
    /\ hints = IF watchesFailed > 0 THEN 1 ELSE 0
    /\ monRet = "NULL" => \A dir \in AllDirs : wdTried[dir] = "none"
    /\ (monRet = "adding" /\ wdTodo = <<>>) => ENABLED MonitorCreateReturn
    /\ monRet = "ctx" => \A dir \in Registrable : wdTried[dir] # "none"

C25_Witness ==
    /\ monRet = "ctx"
    /\ wdTried["/home/u"] = "ENOSPC"
    /\ wdTried["/tmp"] = "ENOSPC"
    /\ watchesFailed = 2
    /\ hints = 1

\* C26 (client limit): at most ALERT_MAX_CLIENTS slots are occupied, and
\* the accept of a connection while every slot is occupied closes that
\* connection and changes no slot.
C26_ClientLimit ==
    [][/\ Cardinality({i \in DOMAIN clientFd' : clientFd'[i] >= 0})
            <= ALERT_MAX_CLIENTS
       /\ \A c \in Conns :
            (/\ connState[c] = "pending"
             /\ connState'[c] # "pending"
             /\ \A i \in ClientSlots : clientFd[i] >= 0)
                => /\ connState'[c] = "closed"
                   /\ clientFd' = clientFd
                   /\ clientBufLen' = clientBufLen
                   /\ clientCount' = clientCount]_vars

C26_Witness ==
    /\ \A i \in ClientSlots : clientFd[i] >= 0
    /\ connState[1] = "open"
    /\ connState[2] = "closed"
    /\ clientCount = ALERT_MAX_CLIENTS
    /\ frames = 0
    /\ bcasts = 0

\* The step of handle_client_data that discards slot i's accumulator.
C27_Reset(i) ==
    /\ clientFd[i] >= 0
    /\ clientBufLen[i] > 0
    /\ clientBufLen'[i] = 0
    /\ pending' = pending
    /\ connState' = connState

\* The step of handle_client_data that reads the newline of a message of
\* at most ALERT_MSG_MAX bytes into slot i.
C27_Completes(i) ==
    /\ clientFd[i] >= 0
    /\ LET c == fdConn[clientFd[i]]
       IN /\ pending[c].nl
          /\ pending'[c] = NoChunk
          /\ msgLen[c].len <= ALERT_MSG_MAX

\* C27 (framing limit): the accumulator of a slot is reset only for a
\* message longer than ALERT_MSG_MAX bytes, newline included, and the slot
\* stays connected; a message of at most ALERT_MSG_MAX bytes is complete in
\* the accumulator when its newline is read, however it was split.
C27_FramingLimit ==
    [][\A i \in ClientSlots :
          /\ C27_Reset(i) =>
                /\ clientFd'[i] = clientFd[i]
                /\ msgLen[fdConn[clientFd[i]]].done =>
                      msgLen[fdConn[clientFd[i]]].len > ALERT_MSG_MAX
          /\ C27_Completes(i) =>
                clientBufLen[i] + pending[fdConn[clientFd[i]]].len
                    = msgLen[fdConn[clientFd[i]]].len]_vars

\* A complete line that is malformed JSON, lacks a string "action", names
\* an unknown action, or is a restore or delete without a string "id".
C28_Rejected(ch) ==
    /\ ch.nl
    /\ \/ ch.action \in {"malformed", "no_action"}
       \/ ch.action \notin {"sync_state", "restore", "delete"}
       \/ ch.action \in {"restore", "delete"} /\ ch.id = NoId

\* C28 (rejected commands have no effect): the step that reads a rejected
\* command line to its end writes no message to any client, leaves the
\* manifest and the files unchanged and leaves the sender's slot open.
C28_RejectedNoEffect ==
    [][\A c \in Conns :
          (C28_Rejected(pending[c]) /\ pending'[c] = NoChunk) =>
              /\ rcvd' = rcvd
              /\ manifest' = manifest
              /\ files' = files
              /\ qfiles' = qfiles
              /\ \A i \in ClientSlots :
                    (clientFd[i] >= 0 /\ fdConn[clientFd[i]] = c)
                        => clientFd'[i] = clientFd[i]]_vars

C28_Witness ==
    /\ msgLen[1] = [len |-> 21, done |-> TRUE]
    /\ pending[1] = NoChunk
    /\ connState[1] = "open"
    /\ rcvd[1] = <<>>
    /\ frames = 1
    /\ Len(manifest) = 2

\* C29 (broadcast error isolation): alert_broadcast writes to every slot
\* that is connected when its loop reaches it; a write that fails with
\* EAGAIN leaves the slot open; the close_client that follows a write
\* failing with EPIPE (no write has met a closed descriptor) closes no
\* client other than the one whose write failed; the loop goes on to the
\* next slot in every case.
C29_BroadcastIsolation ==
    [][/\ (/\ rpc["worker"] = "b_check"
           /\ rslot["worker"] <= ALERT_MAX_CLIENTS
           /\ clientFd[rslot["worker"]] >= 0
           /\ <<rpc'["worker"], rslot'["worker"]>>
                 # <<rpc["worker"], rslot["worker"]>>)
              => rpc'["worker"] = "b_write"
       /\ (rpc["worker"] = "b_write" /\ rpc'["worker"] = "b_next")
              => /\ clientFd' = clientFd
                 /\ connState' = connState
       /\ (/\ rpc["worker"] = "cc_close"
           /\ rpc'["worker"] = "cc_clear"
           /\ ~staleWrite)
              => \A c \in Conns :
                    connState[c] = "open" => connState'[c] = "open"
       /\ (rpc["worker"] \in {"cc_check", "cc_dec"}
              /\ rpc'["worker"] \notin {"cc_check", "cc_close", "cc_dec"})
              => rpc'["worker"] = "b_next"]_vars

\* C30 (per-submitter processing order): of two paths the monitor thread
\* submitted one after the other, work_fn is entered for the first before
\* it is entered for the second.
C30_SubmitterOrder ==
    \A k, l \in 1..Len(enqSeq) :
        (k < l /\ called[enqSeq[l]] >= 1) => called[enqSeq[k]] >= 1

\* C31: one scan_worker run calls scanner_scan_file at most
\* SCAN_MAX_RETRIES + 1 times; a call that returns a report (clean, infected
\* or error) is the last one; one 'retrying' broadcast precedes each call
\* after the first; the lockdown is applied only after exactly
\* SCAN_MAX_RETRIES + 1 failed calls.
C31_Reported(w) ==
    \/ wpc[w] \in {"clean", "infected", "qfailed", "error"}
    \/ outcome[w] \in {"clean", "quarantined", "qfailed", "error"}

C31_BoundedRetry ==
    \A w \in Workers :
        /\ scanCalls[w] <= SCAN_MAX_RETRIES + 1
        /\ C31_Reported(w) => scanCalls[w] = attempts[w] + 1
        /\ ~C31_Reported(w) => scanCalls[w] = attempts[w]
        /\ wpc[w] = "scan" => retryCasts[w] = scanCalls[w]
        /\ (wpc[w] # "scan" /\ scanCalls[w] > 0) =>
               retryCasts[w] = scanCalls[w] - 1
        /\ (wpc[w] = "lockdown" \/ outcome[w] = "lockdown") =>
               /\ scanCalls[w] = SCAN_MAX_RETRIES + 1
               /\ attempts[w] = SCAN_MAX_RETRIES + 1

C31_Witness ==
    \E w \in Workers :
        /\ outcome[w] = "lockdown"
        /\ scanCalls[w] = SCAN_MAX_RETRIES + 1
        /\ retryCasts[w] = SCAN_MAX_RETRIES

\* C32: when the file does not exist at the check before a retry, the run
\* ends there: the step goes to the return with no scan call, no chmod, no
\* quarantine operation and no broadcast, and the return that follows makes
\* none either.
C32_Vanished(w) ==
    /\ wpc[w] = "retry"
    /\ files[ScanPath(w)] = Absent
    /\ wpc'[w] # "retry"

C32_Returns(w) ==
    /\ wpc[w] = "ret"
    /\ outcome[w] = "vanished"
    /\ wpc'[w] # "ret"

C32_VanishedTerminal ==
    [][\A w \in Workers :
        /\ C32_Vanished(w) =>
              /\ wpc'[w] = "ret"
              /\ outcome'[w] = "vanished"
              /\ UNCHANGED <<files, qfiles, manifest, retryVars>>
        /\ C32_Returns(w) =>
              /\ wpc'[w] = "top"
              /\ casts[w] = retryCasts[w]
              /\ UNCHANGED <<files, qfiles, manifest>>]_vars

C32_Witness ==
    \E w \in Workers :
        /\ wpc[w] = "ret"
        /\ outcome[w] = "vanished"
        /\ scanCalls[w] > 0

\* C33: a threadpool_submit call that sees the shutdown flag, on entry or
\* after it was woken from the wait on a full queue, returns -1 and leaves
\* head, tail, count and the queued items unchanged.
C33_SubmitRejected ==
    [][\A p \in Producers :
          (InSubmit(p) /\ shutdown /\ ppc'[p] # ppc[p]) =>
              /\ ppc'[p] = "idle"
              /\ pret'[p] = -1
              /\ UNCHANGED <<head, tail, count, queue>>]_vars

\* C33 witness: with the flag set and the queue still full, a caller that
\* was woken from the wait holds the mutex.
C33_Witness ==
    /\ shutdown
    /\ count = Capacity
    /\ \E p \in Producers : ppc[p] = "woken"

\* C35: between the critical sections of the pool mutex, count is within
\* 0..capacity, head is (tail + count) mod capacity, the count slots that
\* start at tail hold a path and every other slot is NULL, and
\* submitted - processed equals count.
C35_QueueStructure ==
    /\ count \in 0..Capacity
    /\ head = (tail + count) % Capacity
    /\ \A k \in 0..(Capacity - 1) :
          (queue[(tail + k) % Capacity] # NULL) <=> (k < count)
    /\ submitted - processed = count

\* C35 witness: the queue is full again after the indices have wrapped.
C35_Witness ==
    /\ count = Capacity
    /\ tail # 0
    /\ processed > 0

\* C34: for every event monitor_run reads, the callback is invoked exactly
\* when the name is non-empty, does not begin with '.', the handle is in the
\* handle map, the event has no directory flag and the joined path is an
\* existing regular file; an event with the directory flag and create or
\* moved-in passes the joined directory to add_watch_recursive and invokes
\* no callback.
C34_Admitted(e) ==
    /\ e.name # ""
    /\ ~StartsWithDot(e.name)
    /\ e.wd \in wdMap
    /\ ~e.isdir
    /\ e.st = "REG"

C34_EventFiltering ==
    [][evCount' # evCount =>
        /\ (cbPath' # NoPath) <=> C34_Admitted(ev')
        /\ cbPath' # NoPath => cbPath' = <<ev'.wd, ev'.name>>
        /\ (/\ ev'.name # ""
            /\ ~StartsWithDot(ev'.name)
            /\ ev'.wd \in wdMap
            /\ ev'.isdir
            /\ ev'.kind \in {"IN_CREATE", "IN_MOVED_TO"}) =>
               /\ subscribed' = ev'.wd \o "/" \o ev'.name
               /\ wdTodo' = <<subscribed'>>
               /\ cbPath' = NoPath
        /\ ev'.isdir => cbPath' = NoPath]_vars

\* C34 witness: a regular file in a watched directory was handed to the
\* callback while another watched directory has no entry in the handle map.
C34_Witness ==
    /\ evCount > 0
    /\ cbPath = <<"/tmp/w", "a">>
    /\ wdTried["/home"] = "ok"
    /\ "/home" \notin wdMap

\* C36: no set of threads wait for each other's mutexes in a cycle; a
\* thread that holds the log mutex acquired it last, and its next operation
\* is the release of the log mutex.
C36_WaitsFor(t, u) ==
    /\ lprog[t] # <<>>
    /\ Head(lprog[t]).op = "lock"
    /\ Holds(u, Head(lprog[t]).m)

C36_DeadlockFreedom ==
    /\ \A S \in SUBSET LockThreads :
          S # {} => \E t \in S : \A u \in S : ~C36_WaitsFor(t, u)
    /\ \A t \in LockThreads :
          Holds(t, "log") =>
              /\ lheld[t][Len(lheld[t])] = "log"
              /\ lprog[t] # <<>>
              /\ Head(lprog[t]) = Ul("log")

\* C36 witness: a worker logs inside quarantine_file, the main thread
\* waits for the quarantine mutex and the other two threads for the log
\* mutex.
C36_Witness ==
    /\ lheld["worker"] = <<"quarantine", "log">>
    /\ C36_WaitsFor("main", "worker")
    /\ Head(lprog["main"]).m = "quarantine"
    /\ C36_WaitsFor("monitor", "worker")
    /\ C36_WaitsFor("worker2", "worker")

C38_NoExecWhileUnscanned ==
    \A w \in Workers :
        (wpc[w] \in {"scan", "retry"} /\ files[ScanPath(w)] # Absent)
            => StripExec(files[ScanPath(w)]) = files[ScanPath(w)]

\* C39: every alert_send_to_client call of a sync_state reply writes to a
\* descriptor that is, at that moment, the descriptor of an open client
\* slot.
C39_NoWriteAfterClose ==
    [][(syncFd # NoFd /\ <<syncFd, syncLeft>>' # <<syncFd, syncLeft>>)
          => \E i \in ClientSlots : clientFd[i] = syncFd]_vars

\* C40: a command is passed to the command handler only from a message of
\* at most ALERT_MSG_MAX bytes: no byte of a longer frame, the part read
\* after the accumulator reset included, reaches the handler.
C40_OversizeDiscarded ==
    [][\A c \in Conns :
          (syncFd = NoFd /\ syncFd' # NoFd /\ syncReq'.conn = c)
              => msgLen[c].len <= ALERT_MSG_MAX]_vars

====
